---- MODULE Spec2Model ----
(***************************************************************************)
(* A model of CRcrawler: the multi-language semantic analyzer and the      *)
(* resumable GitHub pull-request crawler of src/crawler.py.                *)
(*                                                                         *)
(* The module holds several specifications over one set of variables:      *)
(*   SpecReq    make_request: one remote call with its retries and sleeps  *)
(*   SpecPR     get_pull_requests: the paginated listing and its skips     *)
(*   SpecAn     the analyzer: parse_diff_hunks and the change detectors     *)
(*   Spec       crawl_language over a small remote world, with the process *)
(*              killed and started again on the same shard files           *)
(*   SpecRun    one run of crawl_language that is not killed, under weak   *)
(*              fairness                                                   *)
(*   SpecImp    extract_imports on the content of one file                 *)
(*   SpecMat    the converter of src/jsonl_to_sqlite.py reading the shard  *)
(*              files into the database                                    *)
(*   SpecLang   get_language_from_file on the path of a changed file       *)
(*   SpecCall   the three operations of the analyzer called with one       *)
(*              language id, registered or not                             *)
(***************************************************************************)
EXTENDS Integers, Sequences, FiniteSets, TLC

VARIABLES
    \* ---- make_request (src/crawler.py 391-434)
    rq_pc,                  \* "idle" | "loop" | "done"
    rq_attempt,             \* the for-loop variable `attempt` of the running frame
    rq_max_retries,         \* the parameter max_retries of the running frame
    rq_depth,               \* number of recursive make_request frames entered
    rq_trace,               \* history: the gets and sleeps of the call, in order
    rq_result,              \* "pending" | "payload" | "absent"
    rate_limit_remaining,   \* self.rate_limit_remaining
    api_calls,              \* self.api_calls
    \* ---- get_pull_requests (src/crawler.py 552-603)
    pr_pc,                  \* "idle" | "loop" | "done"
    pr_page,                \* the local `page`
    pr_prs,                 \* the local `prs`
    pr_ceiling,             \* the parameter skip_if_too_many
    pr_max_prs,             \* the parameter max_prs (0: None)
    pr_result,              \* the list returned, once pr_pc = "done"
    pr_seen,                \* history: what each requested page answered
    stats,                  \* self.stats
    \* ---- MultiLanguageSemanticAnalyzer on one patch (src/crawler.py 212-343)
    an_pc,                  \* "start" | "functions" | "classes" | "done"
    an_patch,               \* patch_content, as its lines
    an_language,            \* the language argument
    an_function_facts,      \* the local `functions` before deduplication
    an_functions,           \* what detect_function_changes returned
    an_class_facts,         \* the local `classes` before deduplication
    an_classes,             \* what detect_class_changes returned
    an_hunks,               \* what parse_diff_hunks returned
    an_raised,              \* the calls of the analyzer that raised, by name
    \* ---- crawl_language and process_pr_data (src/crawler.py 702-1010)
    shards,                 \* the JSONL files of the language, by kind: their lines
    run,                    \* how many times the process has been started
    cl_pc,                  \* where crawl_language stands
    cl,                     \* the locals of crawl_language
    pp,                     \* the locals of process_pr_data
    hist,                   \* history: repositories counted and skipped, returns of process_pr_data
    \* ---- extract_imports on the content of one file (src/crawler.py 131-210)
    im_pc,                  \* "path" | "start" | "done"
    im_path,                \* file_path, the path of the file
    im_content,             \* file_content, as its lines
    im_language,            \* the language argument
    im_imports,             \* what extract_imports returned
    im_raised,              \* whether extract_imports raised instead of returning
    \* ---- JSONLToSQLiteConverter (src/jsonl_to_sqlite.py)
    mz_files,               \* the JSONL files of the language it reads, by kind: their lines
    mz_pc,                  \* "idle", or the kind of the file being read
    mz_line,                \* line_num of the next line of that file
    mz_pass,                \* how many times run() has been started on the database
    db,                     \* the tables of the database: their rows, a row's id being its place
    mz_log                  \* history: what became of every line read

vars_req == <<rq_pc, rq_attempt, rq_max_retries, rq_depth, rq_trace, rq_result,
              rate_limit_remaining, api_calls>>

vars_pr == <<pr_pc, pr_page, pr_prs, pr_ceiling, pr_max_prs, pr_result, pr_seen>>

vars_an == <<an_pc, an_patch, an_language, an_function_facts, an_functions,
             an_class_facts, an_classes, an_hunks, an_raised>>

vars_crawl == <<shards, run, cl_pc, cl, pp, hist>>

vars_imp == <<im_pc, im_path, im_content, im_language, im_imports, im_raised>>

vars_mat == <<mz_files, mz_pc, mz_line, mz_pass, db, mz_log>>

vars == <<rq_pc, rq_attempt, rq_max_retries, rq_depth, rq_trace, rq_result,
          rate_limit_remaining, api_calls,
          pr_pc, pr_page, pr_prs, pr_ceiling, pr_max_prs, pr_result, pr_seen, stats,
          an_pc, an_patch, an_language, an_function_facts, an_functions,
          an_class_facts, an_classes, an_hunks, an_raised,
          shards, run, cl_pc, cl, pp, hist,
          im_pc, im_path, im_content, im_language, im_imports, im_raised,
          mz_files, mz_pc, mz_line, mz_pass, db, mz_log>>

(***************************************************************************)
(* make_request                                                            *)
(***************************************************************************)

\* Bounds of the model of make_request.
MaxQuotaDepth == 2      \* 403 responses accepted within one call
MaxApiCalls == 1        \* calls counted by api_calls before the model stops calling

\* Program constants.
DefaultMaxRetries == 3          \* max_retries: int = 3
QuotaRetryMaxRetries == 1       \* make_request(url, params, max_retries=1)
InitialRateLimit == 5000        \* self.rate_limit_remaining = 5000
LowWaterMark == 50              \* if self.rate_limit_remaining < 50
CooldownSeconds == 60           \* time.sleep(60)
QuotaMinimumWait == 3600        \* max(reset_time, 3600)

\* What the remote side can answer: an HTTP status, or "exc" for a
\* transport-level failure raised by requests.get.
TransientStatuses == {502, 503, 504}
Statuses == {200, 403, 404, 500} \cup TransientStatuses
\* X-RateLimit-Remaining of a response, on either side of the low-water mark.
RemainingValues == {49, 50}
\* int(X-RateLimit-Reset) - int(time.time()) of a 403 response; negative: the
\* reset time has passed (a missing header gives 0 - now).
ResetDeltas == {0 - 5, 100, 3700}

Pow2(k) == IF k = 0 THEN 1 ELSE IF k = 1 THEN 2 ELSE IF k = 2 THEN 4 ELSE 8

Max(a, b) == IF a >= b THEN a ELSE b

\* An entry of the history: ev "get" (n the status, d the reset delta the
\* response reported; why "exc" when requests.get raised) or ev "sleep" (n the
\* seconds, why the branch that slept).
Ev(kind, why, n, d) == [ev |-> kind, why |-> why, n |-> n, d |-> d]
GetEv(status, reset_delta) == Ev("get", "", status, reset_delta)
ExcEv == Ev("get", "exc", 0, 0)
SleepEv(why, secs) == Ev("sleep", why, secs, 0)

\* Mutant of Classify: 404 handled like a transient server error.
Classify_NotFoundRetried(status) ==
    IF status = 200 THEN "ok"
    ELSE IF status = 403 THEN "quota"
    ELSE IF status \in TransientStatuses \cup {404} THEN "transient"
    ELSE "failed"

\* The if/elif chain over response.status_code.
Classify(status) ==
    IF status = 200 THEN "ok"
    ELSE IF status = 403 THEN "quota"
    ELSE IF status = 404 THEN "not_found"
    ELSE IF status \in TransientStatuses THEN "transient"
    ELSE "failed"

\* check_rate_limit: the events it adds to the history.
CheckRateLimit(remaining) ==
    IF remaining < LowWaterMark THEN <<SleepEv("cooldown", CooldownSeconds)>> ELSE <<>>

\* wait_time of the 403 branch.
QuotaWaitTime(reset_delta) == Max(reset_delta, QuotaMinimumWait)

\* Mutant of BackoffSeconds: linear instead of exponential.
BackoffSeconds_Linear(attempt) == attempt + 1

\* The backoff of the 5xx branch and of the except branch.
BackoffSeconds(attempt) == Pow2(attempt)

\* The frame entered by the 403 branch: return self.make_request(url, params, max_retries=1)
QuotaRetryFrame == [attempt |-> 0, max_retries |-> QuotaRetryMaxRetries]

ReqStart ==
    /\ rq_pc = "idle"
    /\ api_calls < MaxApiCalls
    /\ rq_pc' = "loop"
    /\ rq_attempt' = 0
    /\ rq_max_retries' = DefaultMaxRetries
    /\ rq_depth' = 0
    /\ rq_trace' = <<>>
    /\ rq_result' = "pending"
    /\ UNCHANGED <<rate_limit_remaining, api_calls, vars_pr, stats, vars_an, vars_crawl, vars_imp, vars_mat>>

\* The loop is left when range(max_retries) is used up: the function falls off
\* its end and returns None.
AfterContinue(next_attempt) ==
    IF next_attempt < rq_max_retries
    THEN /\ rq_pc' = "loop"
         /\ rq_attempt' = next_attempt
         /\ rq_result' = "pending"
    ELSE /\ rq_pc' = "done"
         /\ rq_attempt' = next_attempt
         /\ rq_result' = "absent"

\* One iteration of the for loop whose requests.get raises.
ReqException ==
    /\ rq_pc = "loop"
    /\ rq_attempt < rq_max_retries
    /\ LET pre == rq_trace \o CheckRateLimit(rate_limit_remaining) \o <<ExcEv>>
       IN  IF rq_attempt < rq_max_retries - 1
           THEN /\ rq_trace' = pre \o <<SleepEv("backoff", BackoffSeconds(rq_attempt))>>
                /\ rq_pc' = "loop"
                /\ rq_attempt' = rq_attempt + 1
                /\ rq_result' = "pending"
           ELSE /\ rq_trace' = pre
                /\ rq_pc' = "done"
                /\ rq_attempt' = rq_attempt
                /\ rq_result' = "absent"
    /\ UNCHANGED <<rq_max_retries, rq_depth, rate_limit_remaining, api_calls, vars_pr, stats, vars_an, vars_crawl, vars_imp, vars_mat>>

\* One iteration of the for loop whose requests.get returns a response.
ReqResponse(status, remaining, reset_delta) ==
    /\ rq_pc = "loop"
    /\ rq_attempt < rq_max_retries
    /\ status = 403 => rq_depth < MaxQuotaDepth
    /\ UNCHANGED <<vars_pr, stats, vars_an, vars_crawl, vars_imp, vars_mat>>
    /\ api_calls' = api_calls + 1
    /\ rate_limit_remaining' = remaining
    /\ LET pre == rq_trace \o CheckRateLimit(rate_limit_remaining) \o <<GetEv(status, reset_delta)>>
           kind == Classify(status)
       IN  CASE kind = "ok" ->
                    /\ rq_trace' = pre
                    /\ rq_pc' = "done"
                    /\ rq_result' = "payload"
                    /\ UNCHANGED <<rq_attempt, rq_max_retries, rq_depth>>
             [] kind = "quota" ->
                    /\ rq_trace' = pre \o <<SleepEv("quota", QuotaWaitTime(reset_delta))>>
                    /\ rq_pc' = "loop"
                    /\ rq_result' = "pending"
                    /\ rq_attempt' = QuotaRetryFrame.attempt
                    /\ rq_max_retries' = QuotaRetryFrame.max_retries
                    /\ rq_depth' = rq_depth + 1
             [] kind = "not_found" ->
                    /\ rq_trace' = pre
                    /\ rq_pc' = "done"
                    /\ rq_result' = "absent"
                    /\ UNCHANGED <<rq_attempt, rq_max_retries, rq_depth>>
             [] kind = "transient" ->
                    /\ rq_trace' = pre \o <<SleepEv("backoff", BackoffSeconds(rq_attempt))>>
                    /\ AfterContinue(rq_attempt + 1)
                    /\ UNCHANGED <<rq_max_retries, rq_depth>>
             [] OTHER ->
                    /\ rq_trace' = pre
                    /\ rq_pc' = "done"
                    /\ rq_result' = "absent"
                    /\ UNCHANGED <<rq_attempt, rq_max_retries, rq_depth>>

\* The caller takes the result; the crawler object lives on.
ReqReturn ==
    /\ rq_pc = "done"
    /\ rq_pc' = "idle"
    /\ UNCHANGED <<rq_attempt, rq_max_retries, rq_depth, rq_trace, rq_result,
                   rate_limit_remaining, api_calls, vars_pr, stats, vars_an, vars_crawl, vars_imp, vars_mat>>

\* The crawler object after __init__.
InitCrawlerObject ==
    /\ rq_pc = "idle"
    /\ rq_attempt = 0
    /\ rq_max_retries = DefaultMaxRetries
    /\ rq_depth = 0
    /\ rq_trace = <<>>
    /\ rq_result = "pending"
    /\ rate_limit_remaining = InitialRateLimit
    /\ api_calls = 0
    /\ stats = [total_repos_attempted |-> 0,
                repos_successfully_processed |-> 0,
                repos_skipped_no_prs |-> 0,
                repos_skipped_too_many_prs |-> 0,
                repos_failed |-> 0,
                total_prs_processed |-> 0,
                repos_skipped_already_processed |-> 0]

\* No call of get_pull_requests is running.
InitPRIdle ==
    /\ pr_pc = "idle"
    /\ pr_page = 1
    /\ pr_prs = <<>>
    /\ pr_ceiling = 0
    /\ pr_max_prs = 0
    /\ pr_result = <<>>
    /\ pr_seen = <<>>

\* The kinds of shard files process_pr_data appends to.
ShardKinds ==
    {"pr_data", "commits", "file_changes", "function_changes", "class_changes",
     "diff_hunks", "imports", "review_comments"}

\* The locals of crawl_language before it runs.
NoCrawlLocals ==
    [processed_repos_set |-> {},
     successfully_processed_repos |-> 0,
     current_start_index |-> 0,
     repos_batch |-> <<>>,
     repo_idx |-> 1,
     prs |-> <<>>,
     pr_idx |-> 1,
     repo_pr_count |-> 0]

\* The locals of process_pr_data before it runs.
NoPRLocals ==
    [repo |-> "", pr_number |-> 0, commits |-> <<>>, ci |-> 1, files |-> <<>>, fi |-> 1,
     wq |-> <<>>, after |-> ""]

NoHistory ==
    [counted |-> {}, returns |-> {}, inflight |-> <<>>, write_errors |-> 0, skipped |-> {}]

\* Empty shard files and a process that has not called crawl_language yet.
InitCrawlState ==
    /\ shards = [k \in ShardKinds |-> <<>>]
    /\ run = 1
    /\ cl_pc = "start"
    /\ cl = NoCrawlLocals
    /\ pp = NoPRLocals
    /\ hist = NoHistory

\* crawl_language is not at work.
InitCrawlIdle ==
    /\ shards = [k \in ShardKinds |-> <<>>]
    /\ run = 1
    /\ cl_pc = "end"
    /\ cl = NoCrawlLocals
    /\ pp = NoPRLocals
    /\ hist = NoHistory

\* extract_imports is not at work.
InitImpIdle ==
    /\ im_pc = "done"
    /\ im_path = ""
    /\ im_content = <<>>
    /\ im_language = ""
    /\ im_imports = <<>>
    /\ im_raised = FALSE

\* The tables of JSONLToSQLiteConverter.create_tables, without a row.
EmptyDB ==
    [repositories |-> <<>>, pull_requests |-> <<>>, commits |-> <<>>,
     file_changes |-> <<>>, function_changes |-> <<>>, class_changes |-> <<>>,
     diff_hunks |-> <<>>, file_imports |-> <<>>, review_comments |-> <<>>]

\* The converter is not at work and there is nothing for it to read.
InitMatIdle ==
    /\ mz_files = [k \in ShardKinds |-> <<>>]
    /\ mz_pc = "idle"
    /\ mz_line = 1
    /\ mz_pass = 0
    /\ db = EmptyDB
    /\ mz_log = <<>>

\* The analyzer is not at work.
InitAnIdle ==
    /\ an_pc = "done"
    /\ an_patch = <<>>
    /\ an_language = "python"
    /\ an_function_facts = <<>>
    /\ an_functions = <<>>
    /\ an_class_facts = <<>>
    /\ an_classes = <<>>
    /\ an_hunks = <<>>
    /\ an_raised = {}

InitReq ==
    /\ InitCrawlerObject
    /\ InitPRIdle
    /\ InitImpIdle
    /\ InitMatIdle
    /\ InitAnIdle
    /\ InitCrawlIdle

NextReq ==
    \/ ReqStart
    \/ ReqException
    \/ \E s \in Statuses, r \in RemainingValues :
          \E d \in (IF s = 403 THEN ResetDeltas ELSE {0}) : ReqResponse(s, r, d)
    \/ ReqReturn

SpecReq == InitReq /\ [][NextReq]_vars

(***************************************************************************)
(* get_pull_requests                                                       *)
(***************************************************************************)

\* Bound of the model: the remote listing has at most this many full pages.
MaxPages == 3

\* Program constants.
PerPage == 100                  \* 'per_page': 100
FirstPageMergedThreshold == 80  \* len(merged_prs) > 80
EstimateFactor == 10            \* estimated_total = len(merged_prs) * 10
DefaultCeiling == 100           \* skip_if_too_many: int = 100
CrawlCeiling == 200             \* skip_if_too_many=200 in crawl_language

\* The parameters the model calls get_pull_requests with (max_prs 0: None).
PRCeilings == {DefaultCeiling, CrawlCeiling, 1000}
PRMaxPrs == {0, 30}

\* What one page of the remote listing can hold: `size` closed pull requests of
\* which `merged` carry a merge timestamp, the merged ones first ("head") or
\* last ("tail").
Shape(size, merged, layout) == [size |-> size, merged |-> merged, layout |-> layout]
FullShapes ==
    {Shape(PerPage, m, "head") : m \in {0, 41, 80, 81, 85}} \cup {Shape(PerPage, 100, "tail")}
ShortShapes ==
    {Shape(0, 0, "head"), Shape(40, 0, "head"), Shape(40, 25, "tail"), Shape(40, 35, "head")}

\* The payload of page `page` of shape sh: the pull requests, numbered by their
\* place in the listing.
MkPage(page, sh) ==
    [i \in 1..sh.size |->
        [number |-> (page - 1) * PerPage + i,
         merged |-> IF sh.layout = "head" THEN i <= sh.merged
                                          ELSE i > sh.size - sh.merged]]

\* What make_request hands to get_pull_requests: None, or the page.
Absent == [absent |-> TRUE, items |-> <<>>]
Payload(items) == [absent |-> FALSE, items |-> items]

IsMerged(pr) == pr.merged

\* Mutant of MergedOf: the filter on merged_at is lost.
MergedOf_Unfiltered(data) == data

\* merged_prs = [pr for pr in data if pr.get('merged_at')]
MergedOf(data) == SelectSeq(data, IsMerged)

\* Mutant of SkipByEstimate: the estimate is compared on every page but the first.
SkipByEstimate_LaterPages(page, n_merged, n_data, ceiling) ==
    /\ page # 1
    /\ n_merged > FirstPageMergedThreshold
    /\ n_data = PerPage
    /\ n_merged * EstimateFactor > ceiling

\* The first skip heuristic: a full first page with more than 80 merged entries
\* whose tenfold exceeds the ceiling.
SkipByEstimate(page, n_merged, n_data, ceiling) ==
    /\ page = 1
    /\ n_merged > FirstPageMergedThreshold
    /\ n_data = PerPage
    /\ n_merged * EstimateFactor > ceiling

\* Mutant of SkipByCount: the count is only compared on the first page.
SkipByCount_FirstPageOnly(page, n_prs, ceiling) == page = 1 /\ n_prs > ceiling

\* The second skip heuristic: the accumulated merged count exceeds the ceiling.
SkipByCount(page, n_prs, ceiling) == n_prs > ceiling

Take(seq, n) == IF Len(seq) <= n THEN seq ELSE SubSeq(seq, 1, n)

\* What pr_seen records of a requested page.
Seen(resp) ==
    [absent |-> resp.absent, size |-> Len(resp.items), merged |-> Len(MergedOf(resp.items))]

\* The call get_pull_requests(owner, repo, max_prs=max_prs, skip_if_too_many=ceiling) begins.
PRBegin(ceiling, max_prs) ==
    /\ pr_pc' = "loop"
    /\ pr_page' = 1
    /\ pr_prs' = <<>>
    /\ pr_ceiling' = ceiling
    /\ pr_max_prs' = max_prs
    /\ pr_result' = <<>>
    /\ pr_seen' = <<>>

PRReturnWith(result) ==
    /\ pr_pc' = "done"
    /\ pr_result' = result

BumpStat(name) == stats' = [stats EXCEPT ![name] = @ + 1]

\* Mutant of SkipReturn: a skipped repository hands over what was collected.
SkipReturn_Partial(prs) == prs

\* return [] of the two skip heuristics.
SkipReturn(prs) == <<>>

\* One iteration of `while True`: page pr_page is requested and answers resp.
PRPage(resp) ==
    /\ pr_pc = "loop"
    /\ pr_seen' = Append(pr_seen, Seen(resp))
    /\ UNCHANGED <<pr_ceiling, pr_max_prs>>
    /\ LET data == resp.items
           merged_prs == MergedOf(data)
           prs == pr_prs \o merged_prs
       IN  IF resp.absent \/ data = <<>>
           THEN \* if not data: break
                /\ PRReturnWith(pr_prs)
                /\ UNCHANGED <<pr_page, pr_prs, stats>>
           ELSE IF SkipByEstimate(pr_page, Len(merged_prs), Len(data), pr_ceiling)
           THEN /\ PRReturnWith(SkipReturn(prs))
                /\ pr_prs' = prs
                /\ BumpStat("repos_skipped_too_many_prs")
                /\ UNCHANGED pr_page
           ELSE IF SkipByCount(pr_page, Len(prs), pr_ceiling)
           THEN /\ PRReturnWith(SkipReturn(prs))
                /\ pr_prs' = prs
                /\ BumpStat("repos_skipped_too_many_prs")
                /\ UNCHANGED pr_page
           ELSE IF Len(data) < PerPage
           THEN /\ PRReturnWith(prs)
                /\ pr_prs' = prs
                /\ UNCHANGED <<pr_page, stats>>
           ELSE IF pr_max_prs # 0 /\ Len(prs) >= pr_max_prs
           THEN /\ PRReturnWith(Take(prs, pr_max_prs))
                /\ pr_prs' = Take(prs, pr_max_prs)
                /\ UNCHANGED <<pr_page, stats>>
           ELSE /\ pr_page' = pr_page + 1
                /\ pr_prs' = prs
                /\ UNCHANGED <<pr_pc, pr_result, stats>>

\* The responses the remote listing can give to the request of page pr_page.
PRResponses ==
    {Absent} \cup {Payload(MkPage(pr_page, sh)) : sh \in ShortShapes}
             \cup (IF pr_page <= MaxPages
                   THEN {Payload(MkPage(pr_page, sh)) : sh \in FullShapes} ELSE {})

PRStart ==
    /\ pr_pc = "idle"
    /\ pr_seen = <<>>
    /\ \E c \in PRCeilings, m \in PRMaxPrs : PRBegin(c, m)
    /\ UNCHANGED <<vars_req, stats, vars_an, vars_crawl, vars_imp, vars_mat>>

PRStep ==
    /\ \E resp \in PRResponses : PRPage(resp)
    /\ UNCHANGED <<vars_req, vars_an, vars_crawl, vars_imp, vars_mat>>

PRReturn ==
    /\ pr_pc = "done"
    /\ pr_pc' = "idle"
    /\ UNCHANGED <<pr_page, pr_prs, pr_ceiling, pr_max_prs, pr_result, pr_seen, stats,
                   vars_req, vars_an, vars_crawl, vars_imp, vars_mat>>

InitPR ==
    /\ InitCrawlerObject
    /\ InitPRIdle
    /\ InitImpIdle
    /\ InitMatIdle
    /\ InitAnIdle
    /\ InitCrawlIdle

NextPR ==
    \/ PRStart
    \/ PRStep
    \/ PRReturn

SpecPR == InitPR /\ [][NextPR]_vars


(***************************************************************************)
(* Claims about get_pull_requests (checked under SpecPR)                   *)
(***************************************************************************)

RECURSIVE SumMerged(_)
SumMerged(seen) ==
    IF seen = <<>> THEN 0 ELSE seen[1].merged + SumMerged(Tail(seen))

PRReturned == pr_pc \in {"done", "idle"} /\ pr_seen # <<>>

FirstPageTriggersEstimate ==
    /\ pr_seen # <<>>
    /\ ~pr_seen[1].absent
    /\ pr_seen[1].size = 100
    /\ pr_seen[1].merged > 80
    /\ pr_seen[1].merged * 10 > pr_ceiling

\* C9: when the first page holds 100 items, more than 80 of them merged, and
\* ten times that merged count exceeds the ceiling, get_pull_requests returns
\* the empty list and has requested the first page only.
C9_FirstPageEstimateSkips ==
    FirstPageTriggersEstimate
    => /\ Len(pr_seen) = 1
       /\ PRReturned
       /\ pr_result = <<>>

\* The example of the spec: 85 merged of 100 under a ceiling of 200, where the
\* merged count itself stays below the ceiling.
C9_Witness ==
    /\ pr_pc = "done"
    /\ pr_ceiling = 200
    /\ pr_seen = <<[absent |-> FALSE, size |-> 100, merged |-> 85]>>
    /\ pr_result = <<>>

\* C36: when max_prs is set, get_pull_requests returns at most max_prs pull
\* requests.
C36_ResultWithinMaxPrs ==
    (PRReturned /\ pr_max_prs # 0) => Len(pr_result) <= pr_max_prs

\* C10: once the merged entries of the pages requested so far exceed the
\* ceiling, get_pull_requests has returned the empty list (whichever page that
\* is); a returned list never holds more entries than the ceiling, and every
\* returned entry is merged.
C10_CountSkipsAndBoundsResult ==
    /\ SumMerged(pr_seen) > pr_ceiling => PRReturned /\ pr_result = <<>>
    /\ PRReturned => Len(pr_result) <= pr_ceiling
    /\ \A i \in 1..Len(pr_result) : pr_result[i].merged

\* The count passes the ceiling on a later page, with no estimate involved.
C10_Witness ==
    /\ pr_pc = "done"
    /\ Len(pr_seen) >= 2
    /\ ~FirstPageTriggersEstimate
    /\ SumMerged(pr_seen) > pr_ceiling
    /\ SumMerged(SubSeq(pr_seen, 1, Len(pr_seen) - 1)) <= pr_ceiling
    /\ pr_result = <<>>


(***************************************************************************)
(* MultiLanguageSemanticAnalyzer: parse_diff_hunks, detect_function_changes *)
(* and detect_class_changes                                                *)
(***************************************************************************)

\* Bound of the model: the number of lines of a patch.
MaxPatchLines == 4

\* The keys of LANGUAGE_CONFIG, in its order.
LanguageOrder == <<"python", "javascript", "java", "golang", "cpp", "typescript">>
KnownLanguages == {LanguageOrder[i] : i \in 1..Len(LanguageOrder)}
\* The languages the model calls the analyzer with: two of LANGUAGE_CONFIG and
\* one that is not registered.
Languages == {"python", "javascript", "ruby"}

\* A line of a patch. mark is what the line starts with: "@@", "+", "-", " " or
\* "x" (anything else); text is the rest of a change line.  For a line that
\* starts with "@@", hdr holds what re.match of the header pattern gives: ok
\* (whether it matched) and its groups, an absent optional group being <<>>.
NoHdr == [ok |-> FALSE, g1 |-> 0, g2 |-> <<>>, g3 |-> 0, g4 |-> <<>>, g5 |-> <<>>]
HeaderLine(g1, g2, g3, g4, g5) ==
    [mark |-> "@@", text |-> "",
     hdr |-> [ok |-> TRUE, g1 |-> g1, g2 |-> g2, g3 |-> g3, g4 |-> g4, g5 |-> g5]]
BadHeaderLine == [mark |-> "@@", text |-> " garbage", hdr |-> NoHdr]
ChangeLine(mark, text) == [mark |-> mark, text |-> text, hdr |-> NoHdr]

\* str.strip on the texts of the model.
Strip(text) ==
    CASE text = " def foo(a):" -> "def foo(a):"
      [] text = " class Foo(Base):" -> "class Foo(Base):"
      [] text = " class Foo" -> "class Foo"
      [] text = " function foo(a) {" -> "function foo(a) {"
      [] text = " class Foo {" -> "class Foo {"
      [] text = " garbage" -> "garbage"
      [] text = "   " -> ""
      [] text = "  import os" -> "import os"
      [] OTHER -> text

\* re.search of each pattern of config['function_patterns'], in their order, on
\* a text of the model: the group(1) of every pattern that matches.
FunctionPatternMatches(language, text) ==
    LET t == Strip(text)
    IN  CASE language = "python" /\ t = "def foo(a):" -> <<"foo">>
          [] language = "python" /\ t = "def bar():" -> <<"bar">>
          [] language = "python" /\ t = "def baz():" -> <<"baz">>
          [] language \in {"javascript", "typescript"} /\ t = "function foo(a) {" -> <<"foo">>
          [] language \in {"javascript", "typescript"} /\ t = "foo: function(a) {" -> <<"foo">>
          [] language \in {"javascript", "typescript"} /\ t = "const f = (x) => g(y) => 1"
                -> <<"f", "g">>
          [] language = "cpp" /\ t = "def foo(a):" -> <<"foo">>
          [] language = "cpp" /\ t = "def bar():" -> <<"bar">>
          [] language = "cpp" /\ t = "def baz():" -> <<"baz">>
          [] language = "cpp" /\ t = "class Foo(Base):" -> <<"Foo">>
          [] language = "cpp" /\ t = "function foo(a) {" -> <<"foo">>
          [] OTHER -> <<>>

\* The same for config['class_patterns'].
ClassPatternMatches(language, text) ==
    LET t == Strip(text)
    IN  CASE language = "python" /\ t = "class Foo(Base):" -> <<"Foo">>
          [] language = "python" /\ t = "class Foo:" -> <<"Foo">>
          [] language = "javascript" /\ t = "class Foo(Base):" -> <<"Foo">>
          [] language \in {"javascript", "typescript", "java", "cpp"} /\ t = "class Foo {"
                -> <<"Foo">>
          [] language = "cpp" /\ t = "class Foo:" -> <<"Foo">>
          [] OTHER -> <<>>

PatternMatches(kind, language, text) ==
    IF kind = "function" THEN FunctionPatternMatches(language, text)
                         ELSE ClassPatternMatches(language, text)

\* Mutant of CountOr1: a count written as 0 is replaced by 1 as well.
CountOr1_ZeroToo(group) == IF group = <<>> \/ group[1] = 0 THEN 1 ELSE group[1]

\* int(match.group(n) or 1)
CountOr1(group) == IF group = <<>> THEN 1 ELSE group[1]

\* The hunk a matching header opens.
NewHunk(hdr) ==
    [old_start |-> hdr.g1,
     old_count |-> CountOr1(hdr.g2),
     new_start |-> hdr.g3,
     new_count |-> CountOr1(hdr.g4),
     context |-> IF hdr.g5 = <<>> THEN "" ELSE Strip(hdr.g5[1]),
     changes |-> <<>>]

\* Mutant of IsChangeLine: lines with the space marker are not kept.
IsChangeLine_NoContext(line) == line.mark \in {"+", "-"}

\* line.startswith(('+', '-', ' '))
IsChangeLine(line) == line.mark \in {"+", "-", " "}

\* parse_diff_hunks: current_hunk is the last hunk of `hunks` once one exists.
RECURSIVE ParseFrom(_, _)
ParseFrom(lines, hunks) ==
    IF lines = <<>> THEN hunks
    ELSE LET line == Head(lines)
             n == Len(hunks)
         IN  IF line.mark = "@@"
             THEN IF line.hdr.ok
                  THEN ParseFrom(Tail(lines), Append(hunks, NewHunk(line.hdr)))
                  ELSE ParseFrom(Tail(lines), hunks)
             ELSE IF n > 0 /\ IsChangeLine(line)
             THEN ParseFrom(Tail(lines),
                            [hunks EXCEPT ![n].changes = Append(@, line)])
             ELSE ParseFrom(Tail(lines), hunks)

\* The lines of a patch before its first line that starts with "@@" and does
\* not match the header pattern.
RECURSIVE BeforeBadHeader(_)
BeforeBadHeader(lines) ==
    IF lines = <<>> THEN <<>>
    ELSE IF Head(lines).mark = "@@" /\ ~Head(lines).hdr.ok THEN <<>>
    ELSE <<Head(lines)>> \o BeforeBadHeader(Tail(lines))

\* Mutant of parse_diff_hunks: the scan ends at the first malformed header.
parse_diff_hunks_Aborting(patch_content) == ParseFrom(BeforeBadHeader(patch_content), <<>>)

parse_diff_hunks(patch_content) == ParseFrom(patch_content, <<>>)

\* A fact of detect_function_changes (name: function_name) or of
\* detect_class_changes (name: class_name).
Fact(name, change_type, line_content, source, language) ==
    [name |-> name, change_type |-> change_type, line_content |-> line_content,
     source |-> source, language |-> language]

\* The facts of the context of a hunk: one per matching pattern.
ContextFacts(kind, language, hunk) ==
    LET names == PatternMatches(kind, language, hunk.context)
    IN  [i \in 1..Len(names) |->
            Fact(names[i], "modified", Strip(hunk.context), "context", language)]

\* Mutant of LineFacts: every fact of a change line is an added one.
LineFacts_AllAdded(kind, language, line) ==
    IF line.mark \in {"+", "-"}
    THEN LET names == PatternMatches(kind, language, line.text)
         IN  [i \in 1..Len(names) |->
                 Fact(names[i], "added", Strip(line.text), "diff_content", language)]
    ELSE <<>>

\* The facts of one change line: none unless it starts with + or -.
LineFacts(kind, language, line) ==
    IF line.mark \in {"+", "-"}
    THEN LET names == PatternMatches(kind, language, line.text)
         IN  [i \in 1..Len(names) |->
                 Fact(names[i], IF line.mark = "+" THEN "added" ELSE "removed",
                      Strip(line.text), "diff_content", language)]
    ELSE <<>>

RECURSIVE ChangesFacts(_, _, _)
ChangesFacts(kind, language, changes) ==
    IF changes = <<>> THEN <<>>
    ELSE LineFacts(kind, language, Head(changes))
         \o ChangesFacts(kind, language, Tail(changes))

\* The loop over the hunks: the list `functions` (or `classes`) it builds.
RECURSIVE CollectFacts(_, _, _)
CollectFacts(kind, language, hunks) ==
    IF hunks = <<>> THEN <<>>
    ELSE ContextFacts(kind, language, Head(hunks))
         \o ChangesFacts(kind, language, Head(hunks).changes)
         \o CollectFacts(kind, language, Tail(hunks))

\* key = f"{func['function_name']}_{func['language']}"; every fact of one call
\* carries the same language, so two keys are equal exactly when the pairs are.
Key(fact) == <<fact.name, fact.language>>

IndexOfKey(unique, key) ==
    LET at == {i \in 1..Len(unique) : Key(unique[i]) = key}
    IN  IF at = {} THEN 0 ELSE CHOOSE i \in at : TRUE

\* Mutant of DedupStep: the first fact of a key is kept whatever comes later.
DedupStep_FirstWins(unique, fact) ==
    IF IndexOfKey(unique, Key(fact)) = 0 THEN Append(unique, fact) ELSE unique

\* One step of the loop over the facts: unique_functions is a dict, so a new key
\* is appended and an assignment to an existing key keeps its place.
DedupStep(unique, fact) ==
    LET i == IndexOfKey(unique, Key(fact))
    IN  IF i = 0 THEN Append(unique, fact)
        ELSE IF fact.source = "diff_content" THEN [unique EXCEPT ![i] = fact]
        ELSE unique

RECURSIVE DedupFrom(_, _)
DedupFrom(facts, unique) ==
    IF facts = <<>> THEN unique
    ELSE DedupFrom(Tail(facts), DedupStep(unique, Head(facts)))

\* list(unique_functions.values())
Dedup(facts) == DedupFrom(facts, <<>>)

\* Mutant of IsRegistered: the language is not looked for in the registry.
IsRegistered_Any(language) == TRUE

\* The test of `if language not in LANGUAGE_CONFIG: return []`.
IsRegistered(language) == language \in KnownLanguages

\* config = LANGUAGE_CONFIG[language] raises KeyError for a language that is not
\* a key of the registry; it is the only statement of detect_function_changes
\* and detect_class_changes that can raise, every pattern having a group 1.
DetectRaises(language) == IsRegistered(language) /\ language \notin KnownLanguages

\* The list built before deduplication; empty when the call returns at once
\* or raises.
RawFacts(kind, patch_content, language) ==
    IF ~IsRegistered(language) \/ DetectRaises(language) THEN <<>>
    ELSE CollectFacts(kind, language, parse_diff_hunks(patch_content))

detect_function_changes(patch_content, language) ==
    IF ~IsRegistered(language) \/ DetectRaises(language) THEN <<>>
    ELSE Dedup(RawFacts("function", patch_content, language))

detect_class_changes(patch_content, language) ==
    IF ~IsRegistered(language) \/ DetectRaises(language) THEN <<>>
    ELSE Dedup(RawFacts("class", patch_content, language))

\* The lines the model builds patches from, per language of the file.
PythonLines ==
    {HeaderLine(10, <<5>>, 12, <<>>, <<" def foo(a):">>),
     HeaderLine(1, <<2>>, 1, <<3>>, <<" class Foo(Base):">>),
     BadHeaderLine,
     ChangeLine("+", "def foo(a):"),
     ChangeLine("-", "def foo(a):"),
     ChangeLine("+", "def bar():"),
     ChangeLine("-", "def baz():"),
     HeaderLine(1, <<2>>, 1, <<3>>, <<" class Foo">>),
     ChangeLine(" ", "def foo(a):"),
     ChangeLine("+", "class Foo(Base):")}
JavascriptLines ==
    {HeaderLine(10, <<5>>, 12, <<>>, <<" function foo(a) {">>),
     HeaderLine(3, <<>>, 3, <<0>>, <<>>),
     BadHeaderLine,
     ChangeLine("+", "function foo(a) {"),
     ChangeLine("-", "foo: function(a) {"),
     ChangeLine("+", "const f = (x) => g(y) => 1"),
     ChangeLine("x", "\\ No newline at end of file"),
     ChangeLine("-", "class Foo {")}
LinesOf(language) == IF language = "python" THEN PythonLines ELSE JavascriptLines

RECURSIVE SeqsUpTo(_, _)
SeqsUpTo(S, n) ==
    IF n = 0 THEN {<<>>}
    ELSE LET shorter == SeqsUpTo(S, n - 1)
         IN  shorter \cup {Append(q, x) : q \in shorter, x \in S}

\* The crawler's order of calls on the patch of one file (lines 828, 845, 862).
AnDetectFunctions ==
    /\ an_pc = "start"
    /\ an_pc' = "functions"
    /\ an_function_facts' = RawFacts("function", an_patch, an_language)
    /\ an_functions' = detect_function_changes(an_patch, an_language)
    /\ an_raised' = IF DetectRaises(an_language)
                    THEN an_raised \cup {"detect_function_changes"} ELSE an_raised
    /\ UNCHANGED <<an_patch, an_language, an_class_facts, an_classes, an_hunks>>
    /\ UNCHANGED <<vars_req, vars_pr, stats, vars_crawl, vars_imp, vars_mat>>

AnDetectClasses ==
    /\ an_pc = "functions"
    /\ an_pc' = "classes"
    /\ an_class_facts' = RawFacts("class", an_patch, an_language)
    /\ an_classes' = detect_class_changes(an_patch, an_language)
    /\ an_raised' = IF DetectRaises(an_language)
                    THEN an_raised \cup {"detect_class_changes"} ELSE an_raised
    /\ UNCHANGED <<an_patch, an_language, an_function_facts, an_functions, an_hunks>>
    /\ UNCHANGED <<vars_req, vars_pr, stats, vars_crawl, vars_imp, vars_mat>>

AnParseHunks ==
    /\ an_pc = "classes"
    /\ an_pc' = "done"
    /\ an_hunks' = parse_diff_hunks(an_patch)
    /\ UNCHANGED <<an_patch, an_language, an_function_facts, an_functions,
                   an_class_facts, an_classes, an_raised>>
    /\ UNCHANGED <<vars_req, vars_pr, stats, vars_crawl, vars_imp, vars_mat>>

InitAn ==
    /\ InitCrawlerObject
    /\ InitPRIdle
    /\ InitImpIdle
    /\ InitMatIdle
    /\ InitCrawlIdle
    /\ an_pc = "start"
    /\ an_language \in Languages
    /\ an_patch \in SeqsUpTo(LinesOf(an_language), MaxPatchLines)
    /\ an_function_facts = <<>>
    /\ an_functions = <<>>
    /\ an_class_facts = <<>>
    /\ an_classes = <<>>
    /\ an_hunks = <<>>
    /\ an_raised = {}

NextAn ==
    \/ AnDetectFunctions
    \/ AnDetectClasses
    \/ AnParseHunks

SpecAn == InitAn /\ [][NextAn]_vars

(***************************************************************************)
(* Claims about the analyzer (checked under SpecAn)                        *)
(***************************************************************************)

NamesOf(facts) == {facts[i].name : i \in 1..Len(facts)}
HasDiffContent(facts, name) ==
    \E i \in 1..Len(facts) : facts[i].name = name /\ facts[i].source = "diff_content"

\* At most one fact per name, and a name with a diff_content fact among the
\* discovered facts survives as a diff_content fact.
DedupedRight(raw, result) ==
    /\ \A i, j \in 1..Len(result) : result[i].name = result[j].name => i = j
    /\ NamesOf(result) = NamesOf(raw)
    /\ \A i \in 1..Len(result) :
          HasDiffContent(raw, result[i].name) => result[i].source = "diff_content"

\* C1: the result of detect_function_changes and of detect_class_changes holds
\* at most one fact per name, and a name for which a diff_content fact was
\* discovered survives with source diff_content, whether the context fact of
\* that name was discovered before or after it.
C1_DedupPrefersDiffContent ==
    /\ an_pc \in {"functions", "classes", "done"}
          => DedupedRight(an_function_facts, an_functions)
    /\ an_pc \in {"classes", "done"}
          => DedupedRight(an_class_facts, an_classes)

\* A context fact of foo before and another after a diff_content fact of foo;
\* the one survivor is the diff_content fact (the example of the spec: modified
\* from the context, then added from the diff).
C1_Witness ==
    /\ an_pc = "functions"
    /\ \E i, j, k \in 1..Len(an_function_facts) :
          /\ i < j /\ j < k
          /\ an_function_facts[i] = Fact("foo", "modified", "def foo(a):", "context", "python")
          /\ an_function_facts[j] = Fact("foo", "added", "def foo(a):", "diff_content", "python")
          /\ an_function_facts[k].source = "context"
          /\ an_function_facts[k].name = "foo"
    /\ an_functions = <<Fact("foo", "added", "def foo(a):", "diff_content", "python")>>


(***************************************************************************)
(* The remote world and the listing file the crawl runs against            *)
(***************************************************************************)

\* Bounds of the model of crawl_language.
MaxRuns == 2            \* times the process is started
TargetRepos == 2        \* target_repos (200 by default, 100 in main)
BatchSize == 2          \* batch_size (50 in the code)
MaxWriteErrors == 1     \* times save_to_jsonl fails to append

\* Program constant.
MinStars == 1000        \* min_stars: int = 1000

\* The lines of top_<language>_stars_this_year.jsonl.
Listing ==
    <<[repo_name |-> "a/x", star_count |-> 5000],
      [repo_name |-> "low/s", star_count |-> 10],
      [repo_name |-> "b/y", star_count |-> 2000],
      [repo_name |-> "c/z", star_count |-> 1500]>>

\* The first page of closed pull requests of a repository, when it answers.
PRShapeOf(repo) ==
    CASE repo = "a/x" -> Shape(2, 1, "tail")
      [] repo = "b/y" -> Shape(2, 2, "head")
      [] OTHER -> Shape(PerPage, 85, "head")

\* The commits a pull request lists, by sha.
CommitsOf(repo, number) ==
    CASE repo = "a/x" /\ number = 2 -> <<"c1", "c2">>
      [] repo = "b/y" /\ number = 1 -> <<"c3">>
      [] repo = "c/z" /\ number = 1 -> <<"c4">>
      [] repo = "d/w" /\ number \in {1, 2} -> <<"c5">>
      [] OTHER -> <<>>

\* The reviews and the review comments of a pull request; user_null: the
\* "user" of the entry is null.
ReviewsOf(repo, number) ==
    CASE repo = "a/x" /\ number = 2 -> <<[body |-> "LGTM", user_null |-> FALSE]>>
      [] repo = "b/y" /\ number = 1 -> <<[body |-> "", user_null |-> TRUE],
                                         [body |-> "fix", user_null |-> TRUE]>>
      [] OTHER -> <<>>

ReviewCommentsOf(repo, number) ==
    CASE repo = "a/x" /\ number = 2 -> <<[body |-> "", user_null |-> FALSE]>>
      [] OTHER -> <<>>

\* The 'files' of a commit detail: filename and patch.
FilesOf(sha) ==
    CASE sha = "c1" ->
            <<[filename |-> "m.py",
               patch |-> <<HeaderLine(10, <<5>>, 12, <<>>, <<" def foo(a):">>),
                           ChangeLine("+", "def foo(a):"),
                           ChangeLine("+", "class Foo(Base):")>>]>>
      [] sha = "c2" ->
            <<[filename |-> "README.md",
               patch |-> <<HeaderLine(1, <<2>>, 1, <<3>>, <<>>),
                           ChangeLine("+", "def foo(a):")>>]>>
      [] sha = "c5" -> <<[filename |-> "README.md", patch |-> <<>>]>>
      [] sha = "c3" ->
            <<[filename |-> "App.JS",
               patch |-> <<HeaderLine(3, <<>>, 3, <<0>>, <<>>),
                           ChangeLine("-", "foo: function(a) {")>>]>>
      [] OTHER -> <<>>

\* The lines of a file at a commit.
ContentOf(path) ==
    CASE path = "m.py" -> <<"# import sys", "", "from a import b, c">>
      [] path = "App.JS" -> <<"const fs = require('fs')">>
      [] OTHER -> <<>>

(***************************************************************************)
(* get_language_from_file and extract_imports                              *)
(***************************************************************************)

\* Path(file_path).suffix.lower() on the paths of the model.
SuffixLower(path) ==
    CASE path \in {"m.py", "m.PY", "dir/App.py", "dir/App.PY", "a.Py"} -> ".py"
      [] path \in {"m.js", "m.JS", "dir/App.js", "dir/App.JS", "App.JS"} -> ".js"
      [] path \in {"m.jsx", "m.JSX", "dir/App.jsx", "dir/App.JSX"} -> ".jsx"
      [] path \in {"m.ts", "m.TS", "dir/App.ts", "dir/App.TS", "lib.d.ts"} -> ".ts"
      [] path \in {"m.tsx", "m.TSX", "dir/App.tsx", "dir/App.TSX"} -> ".tsx"
      [] path \in {"m.java", "m.JAVA", "dir/App.java", "dir/App.JAVA"} -> ".java"
      [] path \in {"m.go", "m.GO", "dir/App.go", "dir/App.GO"} -> ".go"
      [] path \in {"m.cpp", "m.CPP", "dir/App.cpp", "dir/App.CPP"} -> ".cpp"
      [] path \in {"m.cc", "m.CC", "dir/App.cc", "dir/App.CC"} -> ".cc"
      [] path \in {"m.cxx", "m.CXX", "dir/App.cxx", "dir/App.CXX"} -> ".cxx"
      [] path \in {"m.c++", "m.C++", "dir/App.c++", "dir/App.C++"} -> ".c++"
      [] path \in {"m.hpp", "m.HPP", "dir/App.hpp", "dir/App.HPP"} -> ".hpp"
      [] path \in {"m.h", "m.H", "dir/App.h", "dir/App.H"} -> ".h"
      [] path \in {"README.md"} -> ".md"
      [] path \in {"a.tar.gz"} -> ".gz"
      [] path \in {"x.rb"} -> ".rb"
      [] path \in {"a.py.bak"} -> ".bak"
      [] OTHER -> ""

\* The paths the lookup is tried on: every registered extension as written and
\* in capitals, under two stems, and paths with another suffix or with none.
Paths ==
    {"m.py", "m.PY", "dir/App.py", "dir/App.PY", "m.js", "m.JS",
     "dir/App.js", "dir/App.JS", "m.jsx", "m.JSX", "dir/App.jsx",
     "dir/App.JSX", "m.ts", "m.TS", "dir/App.ts", "dir/App.TS", "m.tsx",
     "m.TSX", "dir/App.tsx", "dir/App.TSX", "m.java", "m.JAVA",
     "dir/App.java", "dir/App.JAVA", "m.go", "m.GO", "dir/App.go",
     "dir/App.GO", "m.cpp", "m.CPP", "dir/App.cpp", "dir/App.CPP", "m.cc",
     "m.CC", "dir/App.cc", "dir/App.CC", "m.cxx", "m.CXX", "dir/App.cxx",
     "dir/App.CXX", "m.c++", "m.C++", "dir/App.c++", "dir/App.C++",
     "m.hpp", "m.HPP", "dir/App.hpp", "dir/App.HPP", "m.h", "m.H",
     "dir/App.h", "dir/App.H", "App.JS", "README.md", "Makefile",
     ".bashrc", "a.tar.gz", "x.rb", "a.Py", "lib.d.ts", "a.py.bak",
     "a.js.", "py"}

\* config['file_extensions']
FileExtensions(language) ==
    CASE language = "python" -> {".py"}
      [] language = "javascript" -> {".js", ".jsx", ".ts", ".tsx"}
      [] language = "java" -> {".java"}
      [] language = "golang" -> {".go"}
      [] language = "cpp" -> {".cpp", ".cc", ".cxx", ".c++", ".hpp", ".h"}
      [] language = "typescript" -> {".ts", ".tsx"}
      [] OTHER -> {}

\* The first language of LANGUAGE_CONFIG that registers the extension; "" is None.
get_language_from_file(file_path) ==
    LET ext == SuffixLower(file_path)
        hits == {i \in 1..Len(LanguageOrder) : ext \in FileExtensions(LanguageOrder[i])}
    IN  IF hits = {} THEN ""
        ELSE LanguageOrder[CHOOSE i \in hits : \A j \in hits : i <= j]

\* Whether re.search of a comment pattern of the language finds something in
\* the stripped line, on the lines of the model.
IsCommentLine(language, stripped) ==
    \/ language = "python" /\ stripped \in {"# import sys", "import os  # operating system"}
    \/ language = "javascript" /\ stripped \in {"// import x from 'y'",
                                                "import x from 'y' // why",
                                                "/* c */ require('z')"}

\* What becomes of a line an import pattern matches: the language-specific
\* branch sets the keys 'import_type' and 'module_name', or leaves them unset
\* (NoKey), or raises IndexError on a group the pattern does not have.
NoKey == "<no key>"
Matched(import_type, module_name) ==
    [raises |-> FALSE, import_type |-> import_type, module_name |-> module_name]
Unset == [raises |-> FALSE, import_type |-> NoKey, module_name |-> NoKey]
RaisesIndexError == [raises |-> TRUE, import_type |-> NoKey, module_name |-> NoKey]

\* The form of import_info['imported_items'] as json.dumps writes it: the
\* python from-branch sets a list, the es6 branch a string, the python
\* import-branch None; the other branches leave the key out and
\* imp.get('imported_items') gives None.
ImportedItems(import_type) ==
    CASE import_type = "from_import" -> "list"
      [] import_type = "es6_import" -> "string"
      [] OTHER -> "null"

\* The first import pattern that matches the stripped line and what the
\* language-specific branch makes of it; <<>> when none matches.
ImportMatch(language, stripped) ==
    CASE language = "python" /\ stripped = "import os" -> <<Matched("import", "os")>>
      [] language = "python" /\ stripped = "import os  # operating system" ->
            <<Matched("import", "os  # operating system")>>
      [] language = "python" /\ stripped = "from a import b, c" ->
            <<Matched("from_import", "a")>>
      \* 'from' in stripped, and the pattern that matched is ^\s*import\s+(.+):
      \* match.group(2) does not exist
      [] language = "python" /\ stripped = "import fromage" -> <<RaisesIndexError>>
      [] language = "javascript" /\ stripped = "import x from 'y'" ->
            <<Matched("es6_import", "y")>>
      [] language = "javascript" /\ stripped = "import x from 'y' // why" ->
            <<Matched("es6_import", "y")>>
      [] language = "javascript" /\ stripped = "const fs = require('fs')" ->
            <<Matched("require", "fs")>>
      \* neither 'from' nor 'require' is in stripped: no branch sets a key
      [] language = "javascript" /\ stripped = "import 'side-effect'" -> <<Unset>>
      \* 'from' in stripped, and the pattern that matched has one group
      [] language = "javascript" /\ stripped = "require('from')" -> <<RaisesIndexError>>
      [] OTHER -> <<>>

\* Mutant of SkipsLine: only blank lines are passed over.
SkipsLine_OnlyBlank(language, stripped) == stripped = ""

\* if not stripped: continue, and if is_comment: continue
SkipsLine(language, stripped) == stripped = "" \/ IsCommentLine(language, stripped)

\* The list `imports` the loop over the lines builds, when no line raises.
RECURSIVE ImportsFrom(_, _, _)
ImportsFrom(lines, line_num, language) ==
    IF lines = <<>> THEN <<>>
    ELSE LET stripped == Strip(Head(lines))
             rest == ImportsFrom(Tail(lines), line_num + 1, language)
         IN  IF SkipsLine(language, stripped) THEN rest
             ELSE LET m == ImportMatch(language, stripped)
                  IN  IF m = <<>> THEN rest
                      ELSE <<[line_number |-> line_num,
                              import_statement |-> stripped,
                              import_type |-> m[1].import_type,
                              module_name |-> m[1].module_name,
                              imported_items |-> ImportedItems(m[1].import_type)]>>
                           \o rest

\* The loop comes to a line on which the language-specific branch raises.
LineRaises(language, stripped) ==
    /\ ~SkipsLine(language, stripped)
    /\ ImportMatch(language, stripped) # <<>>
    /\ ImportMatch(language, stripped)[1].raises

\* extract_imports raises instead of returning: LANGUAGE_CONFIG[language] for a
\* language that is not a key, or a line that raises.
ExtractImportsRaises(file_content, language) ==
    /\ IsRegistered(language)
    /\ \/ language \notin KnownLanguages
       \/ \E i \in 1..Len(file_content) : LineRaises(language, Strip(file_content[i]))

\* What extract_imports returns; <<>> stands in when it raises.
extract_imports(file_content, language) ==
    IF ~IsRegistered(language) \/ ExtractImportsRaises(file_content, language) THEN <<>>
    ELSE ImportsFrom(file_content, 1, language)

\* Bound of the model of extract_imports.
MaxContentLines == 3    \* lines of a file content

\* The lines the model builds file contents from, per language.
PythonContentLines ==
    {"", "   ", "import os", "  import os", "# import sys",
     "import os  # operating system", "from a import b, c", "x = 1", "import fromage"}
JavascriptContentLines ==
    {"", "import x from 'y'", "// import x from 'y'", "import x from 'y' // why",
     "const fs = require('fs')", "let a = 1", "/* c */ require('z')",
     "import 'side-effect'", "require('from')"}
ContentLinesOf(language) ==
    IF language = "javascript" THEN JavascriptContentLines ELSE PythonContentLines

\* imports = self.analyzer.extract_imports(file_content, file_language)
ImExtract ==
    /\ im_pc = "start"
    /\ im_pc' = "done"
    /\ im_imports' = extract_imports(im_content, im_language)
    /\ im_raised' = ExtractImportsRaises(im_content, im_language)
    /\ UNCHANGED <<im_path, im_content, im_language>>
    /\ UNCHANGED <<vars_req, vars_pr, stats, vars_an, vars_crawl, vars_mat>>

InitImp ==
    /\ InitCrawlerObject
    /\ InitPRIdle
    /\ InitAnIdle
    /\ InitCrawlIdle
    /\ InitMatIdle
    /\ im_pc = "start"
    /\ im_path = ""
    /\ im_language \in Languages
    /\ im_content \in SeqsUpTo(ContentLinesOf(im_language), MaxContentLines)
    /\ im_imports = <<>>
    /\ im_raised = FALSE

NextImp == ImExtract

SpecImp == InitImp /\ [][NextImp]_vars

\* Line 805 and line 823: the language of a changed file is looked up from its
\* path, and the file is analysed only when a language was found.
ImResolve ==
    /\ im_pc = "path"
    /\ im_language' = get_language_from_file(im_path)
    /\ im_pc' = IF im_language' = "" THEN "done" ELSE "start"
    /\ UNCHANGED <<im_path, im_content, im_imports, im_raised>>
    /\ UNCHANGED <<vars_req, vars_pr, stats, vars_an, vars_crawl, vars_mat>>

InitLang ==
    /\ InitCrawlerObject
    /\ InitPRIdle
    /\ InitAnIdle
    /\ InitCrawlIdle
    /\ InitMatIdle
    /\ im_pc = "path"
    /\ im_path \in Paths
    /\ im_content = <<"import x from 'y'">>
    /\ im_language = ""
    /\ im_imports = <<>>
    /\ im_raised = FALSE

NextLang ==
    \/ ImResolve
    \/ ImExtract

SpecLang == InitLang /\ [][NextLang]_vars

(***************************************************************************)
(* The three operations of the analyzer called with one language id        *)
(***************************************************************************)

\* Bound of the model of the calls.
MaxProbeLines == 2      \* lines of the patch and of the content

\* The ids the operations are called with: a key of LANGUAGE_CONFIG, and ids
\* that are not keys (a key is matched as it is written).
LanguageIds == {"python", "ruby", "Python", ""}

ProbePatchLines ==
    {HeaderLine(10, <<5>>, 12, <<>>, <<" def foo(a):">>),
     ChangeLine("+", "def bar():"),
     ChangeLine("-", "class Foo(Base):")}

ProbeContentLines == {"import os", "from a import b, c", "# import sys"}

InitCall ==
    /\ InitCrawlerObject
    /\ InitPRIdle
    /\ InitCrawlIdle
    /\ InitMatIdle
    /\ an_pc = "start"
    /\ an_language \in LanguageIds
    /\ an_patch \in SeqsUpTo(ProbePatchLines, MaxProbeLines)
    /\ an_function_facts = <<>>
    /\ an_functions = <<>>
    /\ an_class_facts = <<>>
    /\ an_classes = <<>>
    /\ an_hunks = <<>>
    /\ an_raised = {}
    /\ im_pc = "start"
    /\ im_path = ""
    /\ im_language = an_language
    /\ im_content \in SeqsUpTo(ProbeContentLines, MaxProbeLines)
    /\ im_imports = <<>>
    /\ im_raised = FALSE

NextCall ==
    \/ AnDetectFunctions
    \/ AnDetectClasses
    \/ AnParseHunks
    \/ ImExtract

SpecCall == InitCall /\ [][NextCall]_vars

(***************************************************************************)
(* The shard files                                                         *)
(***************************************************************************)

\* A line of a shard: the keys that name its owner, and what it is about.
Rec(repo, number, sha, path, name, n) ==
    [repo_full_name |-> repo, pr_number |-> number, commit_hash |-> sha,
     file_path |-> path, name |-> name, n |-> n, imported_items |-> "null"]

\* A step of process_pr_data that touches the shards: save_to_jsonl of a
\* record, or the building of a record raising.
WriteItem(kind, rec) == [op |-> "write", kind |-> kind, rec |-> rec]
RaiseItem == [op |-> "raise", kind |-> "", rec |-> Rec("", 0, "", "", "", 0)]

\* output_files without the PR-data shard.
ScannedKinds_WithoutPRData ==
    {"commits", "file_changes", "function_changes", "class_changes", "imports"}

\* output_files of get_processed_repos_set.
ScannedKinds ==
    {"pr_data", "commits", "file_changes", "function_changes", "class_changes", "imports"}

ReposIn(files, kinds) ==
    UNION {{files[k][i].repo_full_name : i \in 1..Len(files[k])} : k \in kinds}

get_processed_repos_set(files) == ReposIn(files, ScannedKinds)

\* load_repos_from_file: the full names of the next window of the listing.
RECURSIVE LoadFrom(_, _, _, _, _)
LoadFrom(lines, current_index, start_index, batch_size, repos) ==
    IF lines = <<>> \/ Len(repos) >= batch_size THEN repos
    ELSE LET repo_data == Head(lines)
         IN  IF repo_data.star_count >= MinStars
             THEN LoadFrom(Tail(lines), current_index + 1, start_index, batch_size,
                           IF current_index >= start_index
                           THEN Append(repos, repo_data.repo_name) ELSE repos)
             ELSE LoadFrom(Tail(lines), current_index, start_index, batch_size, repos)

load_repos_from_file(start_index, batch_size) ==
    LoadFrom(Listing, 0, start_index, batch_size, <<>>)

(***************************************************************************)
(* process_pr_data: the records it writes, in order                        *)
(***************************************************************************)

\* The items up to and including the first one that raises.
RECURSIVE UpToRaise(_)
UpToRaise(items) ==
    IF items = <<>> THEN <<>>
    ELSE IF Head(items).op = "raise" THEN <<Head(items)>>
    ELSE <<Head(items)>> \o UpToRaise(Tail(items))

\* The loops over reviews and review_comments: an entry with a body becomes a
\* record, and building the record raises when the entry's user is null.
RECURSIVE CommentItems(_, _, _, _)
CommentItems(repo, number, comment_type, entries) ==
    IF entries = <<>> THEN <<>>
    ELSE LET e == Head(entries)
             rest == CommentItems(repo, number, comment_type, Tail(entries))
         IN  IF e.body = "" THEN rest
             ELSE IF e.user_null THEN <<RaiseItem>> \o rest
             ELSE <<WriteItem("review_comments", Rec(repo, number, "", "", comment_type, 0))>>
                  \o rest

\* Lines 732-775: the PR record, then the review records.
HeadItems(repo, number, reviews, review_comments) ==
    UpToRaise(<<WriteItem("pr_data", Rec(repo, number, "", "", "", 0))>>
              \o CommentItems(repo, number, "review", reviews)
              \o CommentItems(repo, number, "review_comment", review_comments))

\* Lines 802-878: the file-change record of a file, then, for a file with a
\* language and a patch, its function, class and hunk records.
\* Mutant of Analysed: the detectors run on every file that has a patch.
Analysed_AnyPatch(file_language, patch_content) == patch_content # <<>>

\* `if file_language:` and, inside it, `if patch_content:`.
Analysed(file_language, patch_content) == file_language # "" /\ patch_content # <<>>

FileItems(repo, number, sha, file) ==
    LET path == file.filename
        file_language == get_language_from_file(path)
        functions == detect_function_changes(file.patch, file_language)
        classes == detect_class_changes(file.patch, file_language)
        hunks == parse_diff_hunks(file.patch)
    IN  <<WriteItem("file_changes", Rec(repo, number, sha, path, file_language, 0))>>
        \o (IF Analysed(file_language, file.patch)
            THEN [i \in 1..Len(functions) |->
                    WriteItem("function_changes",
                              Rec(repo, number, sha, path, functions[i].name, 0))]
                 \o [i \in 1..Len(classes) |->
                    WriteItem("class_changes",
                              Rec(repo, number, sha, path, classes[i].name, 0))]
                 \o [i \in 1..Len(hunks) |->
                    WriteItem("diff_hunks", Rec(repo, number, sha, path, "", i - 1))]
            ELSE <<>>)

\* Lines 883-897: the import records of a file whose content was fetched.
ImportItems(repo, number, sha, path, file_language, file_content) ==
    LET imports == extract_imports(file_content, file_language)
    IN  IF ExtractImportsRaises(file_content, file_language) THEN <<RaiseItem>>
        ELSE UpToRaise([i \in 1..Len(imports) |->
                          \* imp['import_type'] and imp['module_name'] raise
                          \* KeyError for a fact without the key
                          IF NoKey \in {imports[i].import_type, imports[i].module_name}
                          THEN RaiseItem
                          ELSE WriteItem("imports",
                                         [Rec(repo, number, sha, path,
                                              imports[i].module_name,
                                              imports[i].line_number)
                                          EXCEPT !.imported_items =
                                                     imports[i].imported_items])])

(***************************************************************************)
(* crawl_language                                                          *)
(***************************************************************************)

\* Mutant of CurrentRepo: the batch is walked from its last repository.
CurrentRepo_Backwards == cl.repos_batch[Len(cl.repos_batch) + 1 - cl.repo_idx]

CurrentRepo == cl.repos_batch[cl.repo_idx]

\* Mutant of RepoSucceeded: a repository counts whatever its pull requests did.
RepoSucceeded_Always(repo_pr_count) == TRUE

\* if repo_pr_count > 0
RepoSucceeded(repo_pr_count) == repo_pr_count > 0

\* Mutant of TargetReached: the target is never taken as reached.
TargetReached_Never(count) == FALSE

\* successfully_processed_repos >= target_repos
TargetReached(count) == count >= TargetRepos

UnchangedOthers == UNCHANGED <<vars_req, vars_an, vars_imp, vars_mat>>

\* Lines 919-923.
CrawlResume ==
    /\ cl_pc = "start"
    /\ LET processed == get_processed_repos_set(shards)
       IN  cl' = [NoCrawlLocals EXCEPT !.processed_repos_set = processed,
                                       !.successfully_processed_repos = Cardinality(processed)]
    /\ cl_pc' = "resumed"
    /\ UNCHANGED <<shards, run, pp, hist, vars_pr, stats>>
    /\ UnchangedOthers

\* Lines 926-931.
CrawlCheckTarget ==
    /\ cl_pc = "resumed"
    /\ cl_pc' = IF TargetReached(cl.successfully_processed_repos) THEN "end" ELSE "load_batch"
    /\ hist' = [hist EXCEPT !.inflight = <<>>]
    /\ UNCHANGED <<shards, run, cl, pp, vars_pr, stats>>
    /\ UnchangedOthers

\* Lines 933-945: the top of the while loop.
CrawlLoadBatch ==
    /\ cl_pc = "load_batch"
    /\ LET repos_batch == load_repos_from_file(cl.current_start_index, BatchSize)
       IN  IF repos_batch = <<>>
           THEN /\ cl_pc' = "end"
                /\ cl' = [cl EXCEPT !.repos_batch = repos_batch]
           ELSE /\ cl_pc' = "next_repo"
                /\ cl' = [cl EXCEPT !.repos_batch = repos_batch, !.repo_idx = 1]
    /\ UNCHANGED <<shards, run, pp, hist, vars_pr, stats>>
    /\ UnchangedOthers

\* Lines 947-949 and 1002-1008: the for loop is over or broken off.
CrawlBatchDone ==
    /\ cl_pc = "next_repo"
    /\ \/ cl.repo_idx > Len(cl.repos_batch)
       \/ TargetReached(cl.successfully_processed_repos)
    /\ cl' = [cl EXCEPT !.current_start_index = @ + BatchSize]
    /\ cl_pc' = IF TargetReached(cl.successfully_processed_repos) THEN "end"
                ELSE IF Len(cl.repos_batch) < BatchSize THEN "end"
                ELSE "load_batch"
    /\ UNCHANGED <<shards, run, pp, hist, vars_pr, stats>>
    /\ UnchangedOthers

\* Lines 954-958.
CrawlSkipProcessed ==
    /\ cl_pc = "next_repo"
    /\ cl.repo_idx <= Len(cl.repos_batch)
    /\ ~TargetReached(cl.successfully_processed_repos)
    /\ CurrentRepo \in cl.processed_repos_set
    /\ BumpStat("repos_skipped_already_processed")
    /\ cl' = [cl EXCEPT !.repo_idx = @ + 1]
    /\ UNCHANGED <<cl_pc, shards, run, pp, hist, vars_pr>>
    /\ UnchangedOthers

\* Lines 960-969: the repository is attempted and get_pull_requests is called.
CrawlAttemptRepo ==
    /\ cl_pc = "next_repo"
    /\ cl.repo_idx <= Len(cl.repos_batch)
    /\ ~TargetReached(cl.successfully_processed_repos)
    /\ CurrentRepo \notin cl.processed_repos_set
    /\ BumpStat("total_repos_attempted")
    /\ PRBegin(CrawlCeiling, 0)
    /\ cl_pc' = "get_prs"
    /\ UNCHANGED <<shards, run, cl, pp, hist>>
    /\ UnchangedOthers

\* get_pull_requests asks the remote world for the next page of the repository.
CrawlPRStep ==
    /\ cl_pc = "get_prs"
    /\ \E resp \in {Absent, Payload(MkPage(pr_page, PRShapeOf(CurrentRepo)))} : PRPage(resp)
    /\ hist' = [hist EXCEPT !.skipped =
                   IF stats'.repos_skipped_too_many_prs > stats.repos_skipped_too_many_prs
                   THEN @ \cup {CurrentRepo} ELSE @]
    /\ UNCHANGED <<shards, run, cl_pc, cl, pp>>
    /\ UnchangedOthers

\* Lines 971-977: get_pull_requests has returned.
CrawlGotPRs ==
    /\ cl_pc = "get_prs"
    /\ pr_pc = "done"
    /\ pr_pc' = "idle"
    /\ IF pr_result = <<>>
       THEN /\ BumpStat("repos_skipped_no_prs")
            /\ cl' = [cl EXCEPT !.repo_idx = @ + 1]
            /\ cl_pc' = "next_repo"
       ELSE /\ cl' = [cl EXCEPT !.prs = pr_result, !.pr_idx = 1, !.repo_pr_count = 0]
            /\ cl_pc' = "next_pr"
            /\ UNCHANGED stats
    /\ UNCHANGED <<pr_page, pr_prs, pr_ceiling, pr_max_prs, pr_result, pr_seen>>
    /\ UNCHANGED <<shards, run, pp, hist>>
    /\ UnchangedOthers

\* Lines 989-995: every pull request of the repository has been handled.
CrawlRepoDone ==
    /\ cl_pc = "next_pr"
    /\ cl.pr_idx > Len(cl.prs)
    /\ IF RepoSucceeded(cl.repo_pr_count)
       THEN /\ cl' = [cl EXCEPT !.successfully_processed_repos = @ + 1,
                                !.processed_repos_set = @ \cup {CurrentRepo},
                                !.repo_idx = @ + 1]
            /\ BumpStat("repos_successfully_processed")
            /\ hist' = [hist EXCEPT !.counted = @ \cup {CurrentRepo}]
       ELSE /\ cl' = [cl EXCEPT !.repo_idx = @ + 1]
            /\ UNCHANGED <<stats, hist>>
    /\ cl_pc' = "next_repo"
    /\ UNCHANGED <<shards, run, pp, vars_pr>>
    /\ UnchangedOthers

\* process_pr_data returns ok to lines 982-984.
ProcReturn(repo, number, ok, n_commits) ==
    /\ cl' = [cl EXCEPT !.pr_idx = @ + 1,
                        !.repo_pr_count = IF ok THEN @ + 1 ELSE @]
    /\ IF ok THEN BumpStat("total_prs_processed") ELSE UNCHANGED stats
    /\ hist' = [hist EXCEPT !.returns = @ \cup {[repo |-> repo, pr_number |-> number,
                                                 ok |-> ok, n_commits |-> n_commits]}]
    /\ pp' = NoPRLocals
    /\ cl_pc' = "next_pr"

\* Lines 702-775: process_pr_data fetches the commits, reviews and review
\* comments of the pull request; each of the three requests may come back absent.
\* Mutant of NoCommits: process_pr_data goes on without commits.
NoCommits_Never(commits) == FALSE

\* `if not commits`: get_pr_commits gave an empty list, which is also what it
\* gives when the request came back absent.
NoCommits(commits) == commits = <<>>

ProcFetch ==
    /\ cl_pc = "next_pr"
    /\ cl.pr_idx <= Len(cl.prs)
    /\ \E commits_ok \in BOOLEAN, reviews_ok \in BOOLEAN, comments_ok \in BOOLEAN :
         LET repo == CurrentRepo
             number == cl.prs[cl.pr_idx].number
             commits == IF commits_ok THEN CommitsOf(repo, number) ELSE <<>>
             reviews == IF reviews_ok THEN ReviewsOf(repo, number) ELSE <<>>
             review_comments == IF comments_ok THEN ReviewCommentsOf(repo, number) ELSE <<>>
         IN  IF NoCommits(commits)
             THEN \* if not commits: return False
                  ProcReturn(repo, number, FALSE, 0)
             ELSE /\ pp' = [NoPRLocals EXCEPT
                               !.repo = repo, !.pr_number = number, !.commits = commits,
                               !.wq = HeadItems(repo, number, reviews, review_comments),
                               !.after = "commit"]
                  /\ cl_pc' = "writing"
                  /\ UNCHANGED <<cl, stats, hist>>
    /\ UNCHANGED <<shards, run, vars_pr>>
    /\ UnchangedOthers

\* save_to_jsonl(data, file_path): the record is appended to its shard file,
\* or opening or writing the file raises, which save_to_jsonl logs and swallows.
ProcWrite ==
    /\ cl_pc = "writing"
    /\ pp.wq # <<>>
    /\ Head(pp.wq).op = "write"
    /\ \/ /\ shards' = [shards EXCEPT ![Head(pp.wq).kind] = Append(@, Head(pp.wq).rec)]
          /\ UNCHANGED hist
       \/ /\ hist.write_errors < MaxWriteErrors
          /\ hist' = [hist EXCEPT !.write_errors = @ + 1]
          /\ UNCHANGED shards
    /\ pp' = [pp EXCEPT !.wq = Tail(@)]
    /\ cl_pc' = IF Tail(pp.wq) = <<>> THEN pp.after ELSE "writing"
    /\ UNCHANGED <<run, cl, stats, vars_pr>>
    /\ UnchangedOthers

\* Lines 911-913: building the next record raised; process_pr_data returns False.
ProcRaise ==
    /\ cl_pc = "writing"
    /\ pp.wq # <<>>
    /\ Head(pp.wq).op = "raise"
    /\ ProcReturn(pp.repo, pp.pr_number, FALSE, Len(pp.commits))
    /\ UNCHANGED <<shards, run, vars_pr>>
    /\ UnchangedOthers

\* Lines 778-800: the next commit of the pull request; its detail may be absent.
ProcCommit ==
    /\ cl_pc = "commit"
    /\ pp.ci <= Len(pp.commits)
    /\ \E detail_ok \in BOOLEAN :
         LET sha == pp.commits[pp.ci]
         IN  IF ~detail_ok
             THEN \* if not commit_detail: continue
                  /\ pp' = [pp EXCEPT !.ci = @ + 1]
                  /\ UNCHANGED cl_pc
             ELSE /\ pp' = [pp EXCEPT !.files = FilesOf(sha), !.fi = 1,
                                      !.wq = <<WriteItem("commits",
                                                  Rec(pp.repo, pp.pr_number, sha, "", "", 0))>>,
                                      !.after = "file"]
                  /\ cl_pc' = "writing"
    /\ UNCHANGED <<shards, run, cl, hist, stats, vars_pr>>
    /\ UnchangedOthers

\* Lines 908-909: the commit loop is over; process_pr_data returns True.
ProcDone ==
    /\ cl_pc = "commit"
    /\ pp.ci > Len(pp.commits)
    /\ ProcReturn(pp.repo, pp.pr_number, TRUE, Len(pp.commits))
    /\ UNCHANGED <<shards, run, vars_pr>>
    /\ UnchangedOthers

\* Lines 802-878: the next file of the commit, or the end of the file loop.
ProcFile ==
    /\ cl_pc = "file"
    /\ IF pp.fi > Len(pp.files)
       THEN /\ pp' = [pp EXCEPT !.ci = @ + 1, !.files = <<>>, !.fi = 1]
            /\ cl_pc' = "commit"
       ELSE /\ pp' = [pp EXCEPT !.wq = FileItems(pp.repo, pp.pr_number,
                                                 pp.commits[pp.ci], pp.files[pp.fi]),
                                !.after = "file_tail"]
            /\ cl_pc' = "writing"
    /\ UNCHANGED <<shards, run, cl, hist, stats, vars_pr>>
    /\ UnchangedOthers

\* Lines 880-897: for a file with a language the content is fetched, and it may
\* come back absent; the imports found in it are written.
ProcFileTail ==
    /\ cl_pc = "file_tail"
    /\ \E content_ok \in BOOLEAN :
         LET path == pp.files[pp.fi].filename
             file_language == get_language_from_file(path)
             file_content == IF content_ok THEN ContentOf(path) ELSE <<>>
             items == IF file_language = "" \/ file_content = <<>> THEN <<>>
                      ELSE ImportItems(pp.repo, pp.pr_number, pp.commits[pp.ci], path,
                                       file_language, file_content)
         IN  /\ pp' = [pp EXCEPT !.fi = @ + 1, !.wq = items, !.after = "file"]
             /\ cl_pc' = IF items = <<>> THEN "file" ELSE "writing"
    /\ UNCHANGED <<shards, run, cl, hist, stats, vars_pr>>
    /\ UnchangedOthers

\* Whether control is inside process_pr_data.
InProcessPR == cl_pc \in {"writing", "commit", "file", "file_tail"}

\* The process is terminated and crawl_language is started again by a new
\* process: the object is constructed afresh and only the shard files remain.
Kill ==
    /\ cl_pc # "start"
    /\ run < MaxRuns
    /\ run' = run + 1
    /\ cl_pc' = "start"
    /\ cl' = NoCrawlLocals
    /\ pp' = NoPRLocals
    /\ hist' = [NoHistory EXCEPT
                   !.inflight = IF InProcessPR
                                THEN <<[repo |-> pp.repo, pr_number |-> pp.pr_number]>>
                                ELSE <<>>,
                   !.write_errors = hist.write_errors,
                   !.skipped = hist.skipped]
    /\ stats' = [k \in DOMAIN stats |-> 0]
    /\ pr_pc' = "idle"
    /\ pr_page' = 1
    /\ pr_prs' = <<>>
    /\ pr_ceiling' = 0
    /\ pr_max_prs' = 0
    /\ pr_result' = <<>>
    /\ pr_seen' = <<>>
    /\ UNCHANGED shards
    /\ UnchangedOthers

Init ==
    /\ InitCrawlerObject
    /\ InitPRIdle
    /\ InitImpIdle
    /\ InitMatIdle
    /\ InitAnIdle
    /\ InitCrawlState

Next ==
    \/ CrawlResume
    \/ CrawlCheckTarget
    \/ CrawlLoadBatch
    \/ CrawlBatchDone
    \/ CrawlSkipProcessed
    \/ CrawlAttemptRepo
    \/ CrawlPRStep
    \/ CrawlGotPRs
    \/ CrawlRepoDone
    \/ ProcFetch
    \/ ProcWrite
    \/ ProcRaise
    \/ ProcCommit
    \/ ProcDone
    \/ ProcFile
    \/ ProcFileTail
    \/ Kill

Spec == Init /\ [][Next]_vars

\* A step of the running process: any step but the kill.
Proceed ==
    \/ CrawlResume
    \/ CrawlCheckTarget
    \/ CrawlLoadBatch
    \/ CrawlBatchDone
    \/ CrawlSkipProcessed
    \/ CrawlAttemptRepo
    \/ CrawlPRStep
    \/ CrawlGotPRs
    \/ CrawlRepoDone
    \/ ProcFetch
    \/ ProcWrite
    \/ ProcRaise
    \/ ProcCommit
    \/ ProcDone
    \/ ProcFile
    \/ ProcFileTail

\* The PR-data shard as earlier runs can have left it: empty, or with the PR
\* record of one or of two repositories.
PriorPRData ==
    {<<>>,
     <<Rec("a/x", 2, "", "", "", 0)>>,
     <<Rec("a/x", 2, "", "", "", 0), Rec("b/y", 1, "", "", "", 0)>>}

InitRun ==
    /\ InitCrawlerObject
    /\ InitPRIdle
    /\ InitImpIdle
    /\ InitMatIdle
    /\ InitAnIdle
    /\ \E prior \in PriorPRData :
          shards = [k \in ShardKinds |-> IF k = "pr_data" THEN prior ELSE <<>>]
    /\ run = 1
    /\ cl_pc = "start"
    /\ cl = NoCrawlLocals
    /\ pp = NoPRLocals
    /\ hist = NoHistory

\* One run of crawl_language that is not killed: every remote call returns and
\* the interpreter executes the next statement.
SpecRun == InitRun /\ [][Proceed]_vars /\ WF_vars(Proceed)

(***************************************************************************)
(* JSONLToSQLiteConverter (src/jsonl_to_sqlite.py)                         *)
(***************************************************************************)

\* Bound of the model of the converter.
MaxPasses == 2          \* times run() is started on the same database and files

\* The order of process_jsonl_files.
FileOrder ==
    <<"pr_data", "commits", "file_changes", "function_changes", "class_changes",
      "diff_hunks", "imports", "review_comments">>

KindIndex(kind) == CHOOSE i \in 1..Len(FileOrder) : FileOrder[i] = kind

\* A line of a shard file as the converter meets it.  form: whether
\* json.loads returns ("json") or raises ("garbage"); lacks: the keys read
\* with data[...] that the object does not have; rec: what the object holds.
JsonLine(rec) == [form |-> "json", lacks |-> {}, rec |-> rec]
GarbageLine == [form |-> "garbage", lacks |-> {}, rec |-> Rec("", 0, "", "", "", 0)]
LackingLine(rec, key) == [form |-> "json", lacks |-> {key}, rec |-> rec]

\* The keys a handler reads with data[...] before it looks the parent up.
ParentKeys(kind) ==
    CASE kind = "pr_data" -> {"repo_full_name"}
      [] kind \in {"commits", "review_comments"} -> {"repo_full_name", "pr_number"}
      [] kind = "file_changes" -> {"repo_full_name", "commit_hash"}
      [] OTHER -> {"repo_full_name", "commit_hash", "file_path"}

\* The keys it reads with data[...] once the parent is there.
RowKeys(kind) ==
    CASE kind = "pr_data" -> {"pr_number"}
      [] kind = "commits" -> {"commit_hash"}
      [] kind = "file_changes" -> {"file_path", "change_type"}
      [] kind = "function_changes" -> {"function_name", "change_type"}
      [] kind = "class_changes" -> {"class_name", "change_type"}
      [] kind = "diff_hunks" -> {"hunk_index", "old_start", "old_count", "new_start", "new_count"}
      [] kind = "imports" -> {"import_statement"}
      [] OTHER -> {"comment_type"}

\* json.loads(line.strip()) and the data[...] of the given keys raise nothing.
Reads(line, keys) == line.form = "json" /\ line.lacks \cap keys = {}

\* The table a kind of file is read into.
TableOf(kind) == IF kind = "imports" THEN "file_imports" ELSE kind

\* Rows; the id of a row is its place in the table (AUTOINCREMENT, no delete).
\* attrs stands for the columns that are not part of a natural key (stars,
\* title, message, ...), which the record carries in its field n.
RepoRow(full_name, attrs) == [full_name |-> full_name, attrs |-> attrs]
PRRow(repo_id, pr_number, attrs) ==
    [repo_id |-> repo_id, pr_number |-> pr_number, attrs |-> attrs]
CommitRow(repo_id, pr_id, commit_hash, attrs) ==
    [repo_id |-> repo_id, pr_id |-> pr_id, commit_hash |-> commit_hash, attrs |-> attrs]
FileChangeRow(commit_id, file_path) == [commit_id |-> commit_id, file_path |-> file_path]
FactRow(file_change_id, name, n) == [file_change_id |-> file_change_id, name |-> name, n |-> n]
ReviewRow(pr_id, comment_type) == [pr_id |-> pr_id, comment_type |-> comment_type]

\* Mutant of fetchone: the SELECT finds nothing.
fetchone_Nothing(ids) == 0

\* cursor.fetchone() of a SELECT id: the first id found, 0 for None.
fetchone(ids) == IF ids = {} THEN 0 ELSE CHOOSE i \in ids : \A j \in ids : i <= j

RepoIds(d, full_name) ==
    {i \in 1..Len(d.repositories) : d.repositories[i].full_name = full_name}
PRIds(d, repo_id, pr_number) ==
    {i \in 1..Len(d.pull_requests) :
        d.pull_requests[i].repo_id = repo_id /\ d.pull_requests[i].pr_number = pr_number}
CommitIds(d, repo_id, commit_hash) ==
    {i \in 1..Len(d.commits) :
        d.commits[i].repo_id = repo_id /\ d.commits[i].commit_hash = commit_hash}
FileChangeIds(d, commit_id, file_path) ==
    {i \in 1..Len(d.file_changes) :
        d.file_changes[i].commit_id = commit_id /\ d.file_changes[i].file_path = file_path}

get_repo_id(d, repo_full_name) == fetchone(RepoIds(d, repo_full_name))

get_pr_id(d, repo_id, pr_number) ==
    IF repo_id = 0 THEN 0 ELSE fetchone(PRIds(d, repo_id, pr_number))

get_commit_id(d, repo_full_name, commit_hash) ==
    LET repo_id == get_repo_id(d, repo_full_name)
    IN  IF repo_id = 0 THEN 0 ELSE fetchone(CommitIds(d, repo_id, commit_hash))

get_file_change_id(d, repo_full_name, commit_hash, file_path) ==
    LET commit_id == get_commit_id(d, repo_full_name, commit_hash)
    IN  IF commit_id = 0 THEN 0 ELSE fetchone(FileChangeIds(d, commit_id, file_path))

\* Mutant of Resolved: the parent is not tested.
Resolved_Always(id) == TRUE

\* if commit_id: / if file_change_id: / if pr_id: / if repo_id and pr_id:
Resolved(id) == id # 0

Insert(d, table, row) == [d EXCEPT ![table] = Append(@, row)]

\* Mutant of KeepRow: get_or_create writes the record over the row it found.
KeepRow_Overwrite(d, table, id, row) == [d EXCEPT ![table][id] = row]

\* `if result: return result[0]`: the row that was found stays as it is.
KeepRow(d, table, id, row) == d

\* What a handler makes of a line: the database after it and the outcome,
\* "inserted", "found" (lookup-or-insert met the row), "dropped" (the parent
\* is missing) or "error" (the except branch logged the line).
Outcome(d, outcome) == [db |-> d, outcome |-> outcome]

\* _process_pr_data: get_or_create_repository, then get_or_create_pull_request.
IngestPRData(d, line) ==
    IF ~Reads(line, ParentKeys("pr_data")) THEN Outcome(d, "error")
    ELSE LET found == fetchone(RepoIds(d, line.rec.repo_full_name))
             d1 == IF found # 0
                   THEN KeepRow(d, "repositories", found,
                                RepoRow(line.rec.repo_full_name, line.rec.n))
                   ELSE Insert(d, "repositories", RepoRow(line.rec.repo_full_name, line.rec.n))
             repo_id == IF found # 0 THEN found ELSE Len(d1.repositories)
         IN  IF ~Reads(line, RowKeys("pr_data")) THEN Outcome(d1, "error")
             ELSE IF fetchone(PRIds(d1, repo_id, line.rec.pr_number)) # 0
             THEN Outcome(KeepRow(d1, "pull_requests",
                                  fetchone(PRIds(d1, repo_id, line.rec.pr_number)),
                                  PRRow(repo_id, line.rec.pr_number, line.rec.n)),
                          "found")
             ELSE Outcome(Insert(d1, "pull_requests", PRRow(repo_id, line.rec.pr_number, line.rec.n)),
                          "inserted")

\* _process_commits with get_or_create_commit.
IngestCommit(d, line) ==
    IF ~Reads(line, ParentKeys("commits")) THEN Outcome(d, "error")
    ELSE LET repo_id == get_repo_id(d, line.rec.repo_full_name)
             pr_id == get_pr_id(d, repo_id, line.rec.pr_number)
         IN  IF ~(Resolved(repo_id) /\ Resolved(pr_id)) THEN Outcome(d, "dropped")
             ELSE IF ~Reads(line, RowKeys("commits")) THEN Outcome(d, "error")
             ELSE IF fetchone(CommitIds(d, repo_id, line.rec.commit_hash)) # 0
             THEN Outcome(KeepRow(d, "commits",
                                  fetchone(CommitIds(d, repo_id, line.rec.commit_hash)),
                                  CommitRow(repo_id, pr_id, line.rec.commit_hash,
                                            line.rec.n)),
                          "found")
             ELSE Outcome(Insert(d, "commits",
                                 CommitRow(repo_id, pr_id, line.rec.commit_hash,
                                           line.rec.n)),
                          "inserted")

\* _process_file_changes.
IngestFileChange(d, line) ==
    IF ~Reads(line, ParentKeys("file_changes")) THEN Outcome(d, "error")
    ELSE LET commit_id == get_commit_id(d, line.rec.repo_full_name, line.rec.commit_hash)
         IN  IF ~Resolved(commit_id) THEN Outcome(d, "dropped")
             ELSE IF ~Reads(line, RowKeys("file_changes")) THEN Outcome(d, "error")
             ELSE Outcome(Insert(d, "file_changes",
                                 FileChangeRow(commit_id, line.rec.file_path)),
                          "inserted")

\* cursor.execute binds data.get('imported_items') to a parameter: sqlite3
\* takes None and str and raises for a list ("type 'list' is not supported").
Binds(imported_items) == imported_items # "list"

\* _process_function_changes, _process_class_changes, _process_diff_hunks and
\* _process_imports.
IngestFact(d, kind, line) ==
    IF ~Reads(line, ParentKeys(kind)) THEN Outcome(d, "error")
    ELSE LET file_change_id ==
                 get_file_change_id(d, line.rec.repo_full_name, line.rec.commit_hash,
                                    line.rec.file_path)
         IN  IF ~Resolved(file_change_id) THEN Outcome(d, "dropped")
             ELSE IF ~Reads(line, RowKeys(kind)) THEN Outcome(d, "error")
             ELSE IF ~Binds(line.rec.imported_items) THEN Outcome(d, "error")
             ELSE Outcome(Insert(d, TableOf(kind),
                                 FactRow(file_change_id, line.rec.name, line.rec.n)),
                          "inserted")

\* _process_review_comments.
IngestReview(d, line) ==
    IF ~Reads(line, ParentKeys("review_comments")) THEN Outcome(d, "error")
    ELSE LET repo_id == get_repo_id(d, line.rec.repo_full_name)
             pr_id == get_pr_id(d, repo_id, line.rec.pr_number)
         IN  IF ~Resolved(pr_id) THEN Outcome(d, "dropped")
             ELSE IF ~Reads(line, RowKeys("review_comments")) THEN Outcome(d, "error")
             ELSE Outcome(Insert(d, "review_comments", ReviewRow(pr_id, line.rec.name)),
                          "inserted")

\* The for loop over the lines: the except branch continues with the next line.
LineAfter(line_num, outcome, n_lines) == line_num + 1

\* process_pr_data on a commit whose detail and file contents are answered:
\* the commit record, then the records of each of its files.
RECURSIVE FilesItems(_, _, _, _)
FilesItems(repo, number, sha, files) ==
    IF files = <<>> THEN <<>>
    ELSE LET path == Head(files).filename
             file_language == get_language_from_file(path)
             file_content == ContentOf(path)
         IN  FileItems(repo, number, sha, Head(files))
             \o (IF file_language = "" \/ file_content = <<>> THEN <<>>
                 ELSE ImportItems(repo, number, sha, path, file_language, file_content))
             \o FilesItems(repo, number, sha, Tail(files))

RECURSIVE CommitsItems(_, _, _)
CommitsItems(repo, number, commits) ==
    IF commits = <<>> THEN <<>>
    ELSE <<WriteItem("commits", Rec(repo, number, Head(commits), "", "", 0))>>
         \o FilesItems(repo, number, Head(commits), FilesOf(Head(commits)))
         \o CommitsItems(repo, number, Tail(commits))

\* process_pr_data on a pull request when every request is answered.
PRItems(repo, number) ==
    LET commits == CommitsOf(repo, number)
        head == HeadItems(repo, number, ReviewsOf(repo, number),
                          ReviewCommentsOf(repo, number))
    IN  IF commits = <<>> THEN <<>>
        ELSE UpToRaise(head \o CommitsItems(repo, number, commits))

RECURSIVE RunItems(_)
RunItems(prs) ==
    IF prs = <<>> THEN <<>>
    ELSE PRItems(Head(prs)[1], Head(prs)[2]) \o RunItems(Tail(prs))

\* The shard files after save_to_jsonl has appended the records of the items.
RECURSIVE LinesOfKind(_, _)
LinesOfKind(items, kind) ==
    IF items = <<>> THEN <<>>
    ELSE (IF Head(items).op = "write" /\ Head(items).kind = kind
          THEN <<JsonLine(Head(items).rec)>> ELSE <<>>)
         \o LinesOfKind(Tail(items), kind)

FilesAfter(prs) ==
    LET items == RunItems(prs)
    IN  [pr_data |-> LinesOfKind(items, "pr_data"),
         commits |-> LinesOfKind(items, "commits"),
         file_changes |-> LinesOfKind(items, "file_changes"),
         function_changes |-> LinesOfKind(items, "function_changes"),
         class_changes |-> LinesOfKind(items, "class_changes"),
         diff_hunks |-> LinesOfKind(items, "diff_hunks"),
         imports |-> LinesOfKind(items, "imports"),
         review_comments |-> LinesOfKind(items, "review_comments")]

\* The pull requests of two runs of the crawler: the repositories "a/x" and
\* "b/y" of the python listing, and a repository "d/w" whose two merged pull
\* requests list the same commit.
CrawledRuns == {<<<<"a/x", 2>>, <<"b/y", 1>>>>, <<<<"d/w", 1>>, <<"d/w", 2>>>>}

RemoveAt(seq, i) == SubSeq(seq, 1, i - 1) \o SubSeq(seq, i + 1, Len(seq))

\* The record of a later crawl of the same pull request or commit: the same
\* natural key, other attributes.
Restated(line) == [line EXCEPT !.rec.n = @ + 1]

\* What may have become of line i of a shard file before the converter reads
\* it: save_to_jsonl failed to append it, it is there twice, a later crawl
\* has appended it again with other attributes, it is not JSON, or its object
\* lacks a key.
Damaged(files, kind, i) ==
    {[files EXCEPT ![kind] = RemoveAt(@, i)],
     [files EXCEPT ![kind] = Append(@, @[i])],
     [files EXCEPT ![kind][i] = GarbageLine]}
    \cup (IF kind \in {"pr_data", "commits"}
          THEN {[files EXCEPT ![kind] = Append(@, Restated(@[i]))]}
          ELSE {})
    \cup {[files EXCEPT ![kind][i] = LackingLine(@.rec, key)] :
            key \in ParentKeys(kind) \cup RowKeys(kind)}

DamagedOnce(files) ==
    UNION {UNION {Damaged(files, kind, i) : i \in 1..Len(files[kind])} :
             kind \in ShardKinds}

\* The files of a run of the crawler in which save_to_jsonl failed to append the
\* record of the first commit: the records of its files have no commit.
CommitRecordLost(prs) == [FilesAfter(prs) EXCEPT !["commits"] = RemoveAt(@, 1)]

\* The files the converter is started on: those of a run of the crawler, whole
\* or with one line damaged.
MzInputs ==
    UNION {{FilesAfter(prs)} \cup DamagedOnce(FilesAfter(prs))
           \cup DamagedOnce(CommitRecordLost(prs)) : prs \in CrawledRuns}

\* Is the converter inside the for loop of the handler of a file, at a line.
AtLine(kinds) == mz_pc \in kinds /\ mz_line <= Len(mz_files[mz_pc])

UnchangedCrawler == UNCHANGED <<vars_req, vars_pr, stats, vars_an, vars_crawl, vars_imp>>

\* run(): connect_db, create_tables (CREATE TABLE IF NOT EXISTS keeps the rows
\* of an earlier run), then process_jsonl_files starts with the PR data.
MzRun ==
    /\ mz_pc = "idle"
    /\ mz_pass < MaxPasses
    /\ mz_pass' = mz_pass + 1
    /\ mz_pc' = FileOrder[1]
    /\ mz_line' = 1
    /\ UNCHANGED <<mz_files, db, mz_log>>
    /\ UnchangedCrawler

CurrentLine == mz_files[mz_pc][mz_line]

\* The end of one turn of the for loop of a handler, r being what the try block
\* or the except branch made of the line.
MzTurn(r) ==
    /\ db' = r.db
    /\ mz_log' = Append(mz_log, [pass |-> mz_pass, kind |-> mz_pc,
                                 line_num |-> mz_line, outcome |-> r.outcome])
    /\ mz_line' = LineAfter(mz_line, r.outcome, Len(mz_files[mz_pc]))
    /\ UNCHANGED <<mz_files, mz_pc, mz_pass>>
    /\ UnchangedCrawler

MzPRDataLine ==
    /\ AtLine({"pr_data"})
    /\ MzTurn(IngestPRData(db, CurrentLine))

MzCommitLine ==
    /\ AtLine({"commits"})
    /\ MzTurn(IngestCommit(db, CurrentLine))

MzFileChangeLine ==
    /\ AtLine({"file_changes"})
    /\ MzTurn(IngestFileChange(db, CurrentLine))

MzFactLine ==
    /\ AtLine({"function_changes", "class_changes", "diff_hunks", "imports"})
    /\ MzTurn(IngestFact(db, mz_pc, CurrentLine))

MzReviewLine ==
    /\ AtLine({"review_comments"})
    /\ MzTurn(IngestReview(db, CurrentLine))

\* The for loop of a handler is over: process_jsonl_files goes to the next
\* file, and after the last one run() closes the connection.
MzEndOfFile ==
    /\ mz_pc \in ShardKinds
    /\ mz_line > Len(mz_files[mz_pc])
    /\ mz_pc' = IF KindIndex(mz_pc) < Len(FileOrder)
                THEN FileOrder[KindIndex(mz_pc) + 1] ELSE "idle"
    /\ mz_line' = 1
    /\ UNCHANGED <<mz_files, mz_pass, db, mz_log>>
    /\ UnchangedCrawler

InitMat ==
    /\ InitCrawlerObject
    /\ InitPRIdle
    /\ InitImpIdle
    /\ InitAnIdle
    /\ InitCrawlIdle
    /\ mz_files \in MzInputs
    /\ mz_pc = "idle"
    /\ mz_line = 1
    /\ mz_pass = 0
    /\ db = EmptyDB
    /\ mz_log = <<>>

NextMat ==
    \/ MzRun
    \/ MzPRDataLine
    \/ MzCommitLine
    \/ MzFileChangeLine
    \/ MzFactLine
    \/ MzReviewLine
    \/ MzEndOfFile

SpecMat == InitMat /\ [][NextMat]_vars


\* The positions in the patch of the lines that open a hunk: those that start
\* with "@@" and match the header pattern.
HeaderPositions(patch) == {i \in 1..Len(patch) : patch[i].mark = "@@" /\ patch[i].hdr.ok}

\* The position of the k-th line that opens a hunk.
HeaderPosition(patch, k) ==
    CHOOSE i \in HeaderPositions(patch) :
        Cardinality({j \in HeaderPositions(patch) : j <= i}) = k

\* The lines at the given positions, in the order of the patch.
RECURSIVE LinesAt(_, _, _)
LinesAt(patch, positions, from) ==
    IF from > Len(patch) THEN <<>>
    ELSE (IF from \in positions THEN <<patch[from]>> ELSE <<>>)
         \o LinesAt(patch, positions, from + 1)

\* The positions after the k-th hunk-opening header and before the next one.
SegmentOf(patch, k) ==
    LET first == HeaderPosition(patch, k)
        later == {i \in HeaderPositions(patch) : i > first}
    IN  {i \in 1..Len(patch) : i > first /\ \A j \in later : i < j}

\* The positions after the k-th hunk-opening header and before the next line
\* that begins with "@@", well-formed or not.
UpToNextMarker(patch, k) ==
    LET first == HeaderPosition(patch, k)
        later == {i \in 1..Len(patch) : i > first /\ patch[i].mark = "@@"}
    IN  {i \in 1..Len(patch) : i > first /\ \A j \in later : i < j}

\* C37: the change lines of every hunk are the lines with a change marker that
\* stand after the header of the hunk and before the next line that begins
\* with "@@"; so the change lines after a malformed header are in no hunk.
C37_ChangesEndAtNextMarker ==
    an_pc = "done" =>
        \A k \in 1..Len(an_hunks) :
            k <= Cardinality(HeaderPositions(an_patch)) =>
                an_hunks[k].changes =
                    LinesAt(an_patch,
                            {i \in UpToNextMarker(an_patch, k) :
                                an_patch[i].mark \in {"+", "-", " "}},
                            1)

\* C17: every hunk carries the starts of its header, an old count and a new
\* count that are 1 when the header omits them and the written number (0
\* included) otherwise, and the trimmed text after the closing @@ as context.
C17_HeaderCountsAndContext ==
    an_pc = "done" =>
        \A k \in 1..Len(an_hunks) :
            k <= Cardinality(HeaderPositions(an_patch)) =>
                LET hdr == an_patch[HeaderPosition(an_patch, k)].hdr
                    hunk == an_hunks[k]
                IN  /\ hunk.old_start = hdr.g1
                    /\ hunk.new_start = hdr.g3
                    /\ hunk.old_count = (IF hdr.g2 = <<>> THEN 1 ELSE hdr.g2[1])
                    /\ hunk.new_count = (IF hdr.g4 = <<>> THEN 1 ELSE hdr.g4[1])
                    /\ hunk.context = (IF hdr.g5 = <<>> THEN "" ELSE Strip(hdr.g5[1]))

\* A parsed patch with a header that omits the old count and writes the new
\* count 0, and one that omits the new count and has a context.
C17_Witness ==
    /\ an_pc = "done"
    /\ Len(an_hunks) >= 2
    /\ \E k \in 1..Len(an_hunks) :
          an_hunks[k].old_count = 1 /\ an_hunks[k].new_count = 0 /\ an_hunks[k].context = ""
    /\ \E k \in 1..Len(an_hunks) :
          an_hunks[k].old_count = 5 /\ an_hunks[k].new_count = 1 /\ an_hunks[k].context # ""

\* C18: the change lines a hunk stores are the lines of the patch that start
\* with +, - or a space and lie between the hunk's header and the next header
\* that opens a hunk, in the order of the patch and as they are written.
C18_ChangesRoundTrip ==
    an_pc = "done" =>
        \A k \in 1..Len(an_hunks) :
            k <= Cardinality(HeaderPositions(an_patch)) =>
                an_hunks[k].changes =
                    LinesAt(an_patch,
                            {i \in SegmentOf(an_patch, k) : an_patch[i].mark \in {"+", "-", " "}},
                            1)

\* A hunk that stores an added, a removed and an unchanged line.
C18_Witness ==
    /\ an_pc = "done"
    /\ \E k \in 1..Len(an_hunks) :
          {an_hunks[k].changes[i].mark : i \in 1..Len(an_hunks[k].changes)} = {"+", "-", " "}

\* C19: the hunks are as many as the lines that match the header pattern, the
\* k-th hunk is the one of the k-th such line, whether or not a line that
\* starts with "@@" without matching the pattern comes before it.
C19_MalformedHeaderSkipped ==
    an_pc = "done" =>
        /\ Len(an_hunks) = Cardinality(HeaderPositions(an_patch))
        /\ \A k \in 1..Len(an_hunks) :
              /\ an_hunks[k].old_start = an_patch[HeaderPosition(an_patch, k)].hdr.g1
              /\ an_hunks[k].new_start = an_patch[HeaderPosition(an_patch, k)].hdr.g3

\* A parsed patch whose first line is a malformed header and that has a
\* well-formed header, with a change line, after it.
C19_Witness ==
    /\ an_pc = "done"
    /\ Len(an_patch) >= 3
    /\ an_patch[1].mark = "@@" /\ ~an_patch[1].hdr.ok
    /\ Len(an_hunks) = 1
    /\ an_hunks[1].changes # <<>>

\* The places of a parsed patch where a function pattern matches: <<h, 0, k>>
\* for the k-th match in the context of hunk h, <<h, l, k>> for the k-th match
\* in its l-th change line when that line starts with + or -.
FunctionMatchPlaces(hunks, language) ==
    UNION {{<<h, 0, k>> :
               k \in 1..Len(FunctionPatternMatches(language, hunks[h].context))} :
           h \in 1..Len(hunks)}
    \cup UNION {UNION {{<<h, l, k>> :
                          k \in 1..Len(FunctionPatternMatches(language,
                                                              hunks[h].changes[l].text))} :
                       l \in {m \in 1..Len(hunks[h].changes) :
                                 hunks[h].changes[m].mark \in {"+", "-"}}} :
                h \in 1..Len(hunks)}

\* The patch of the scenario: @@ -1,2 +1,3 @@ class Foo / +def bar(): / -def baz():
ScenarioPatch ==
    <<HeaderLine(1, <<2>>, 1, <<3>>, <<" class Foo">>),
      ChangeLine("+", "def bar():"),
      ChangeLine("-", "def baz():")>>

\* C21: among the facts detect_function_changes discovers for a registered
\* language there is, for every + line matching a function pattern, an added
\* fact with source diff_content, for every - line a removed one, for every
\* matching context a modified one with source context, and there are no more
\* facts than these matches, so a line with the space marker gives none.  The
\* scenario patch in python gives exactly bar added and baz removed.
C21_FactPerMarkedLine ==
    /\ (an_pc = "done" /\ an_language \in KnownLanguages) =>
          /\ \A h \in 1..Len(an_hunks) :
                /\ \A k \in 1..Len(FunctionPatternMatches(an_language, an_hunks[h].context)) :
                      \E f \in 1..Len(an_function_facts) :
                          /\ an_function_facts[f].name =
                                 FunctionPatternMatches(an_language, an_hunks[h].context)[k]
                          /\ an_function_facts[f].change_type = "modified"
                          /\ an_function_facts[f].source = "context"
                /\ \A l \in 1..Len(an_hunks[h].changes) :
                      LET line == an_hunks[h].changes[l]
                          names == FunctionPatternMatches(an_language, line.text)
                      IN  line.mark \in {"+", "-"} =>
                            \A k \in 1..Len(names) :
                                \E f \in 1..Len(an_function_facts) :
                                    /\ an_function_facts[f].name = names[k]
                                    /\ an_function_facts[f].change_type =
                                           (IF line.mark = "+" THEN "added" ELSE "removed")
                                    /\ an_function_facts[f].source = "diff_content"
          /\ Len(an_function_facts) = Cardinality(FunctionMatchPlaces(an_hunks, an_language))
    /\ (an_pc # "start" /\ an_language = "python" /\ an_patch = ScenarioPatch) =>
          an_functions = <<Fact("bar", "added", "def bar():", "diff_content", "python"),
                           Fact("baz", "removed", "def baz():", "diff_content", "python")>>

\* The scenario patch was analysed.
C21_Witness ==
    /\ an_pc = "done"
    /\ an_language = "python"
    /\ an_patch = ScenarioPatch
    /\ Len(an_functions) = 2

(***************************************************************************)
(* Claims about the registry of languages (checked under SpecCall)         *)
(***************************************************************************)

\* C22: for a language id that is not a key of LANGUAGE_CONFIG,
\* detect_function_changes, detect_class_changes and extract_imports return the
\* empty list whatever the patch and the content, and none of them raises.
C22_UnknownLanguageGivesNothing ==
    an_language \notin KnownLanguages =>
        /\ an_functions = <<>>
        /\ an_classes = <<>>
        /\ im_imports = <<>>
        /\ an_raised = {}
        /\ ~im_raised

\* The three operations were called with "ruby" on a patch and a content in
\* which the patterns of python find a function and an import.
C22_Witness ==
    /\ an_pc = "done"
    /\ im_pc = "done"
    /\ an_language = "ruby"
    /\ \E i \in 1..Len(an_patch) : an_patch[i] = ChangeLine("+", "def bar():")
    /\ \E i \in 1..Len(im_content) : im_content[i] = "import os"
    /\ Len(an_hunks) = 1

\* C23: whenever the suffix of the path, in small letters, is an extension
\* registered under a language id, the lookup gives that id (so no extension
\* stands under two ids, capitals in the suffix do not matter, and every id
\* with an extension is the result for a path); and a path whose suffix is
\* registered under no id gives none.
C23_ExtensionToOneLanguage ==
    im_pc # "path" =>
        /\ \A language \in KnownLanguages :
              SuffixLower(im_path) \in FileExtensions(language) => im_language = language
        /\ (\A language \in KnownLanguages :
              SuffixLower(im_path) \notin FileExtensions(language)) => im_language = ""

(***************************************************************************)
(* Claims about extract_imports (checked under SpecImp)                    *)
(***************************************************************************)

\* C20: no fact of the result stands for a line that is blank once trimmed or
\* whose trimmed text a comment pattern of the language finds something in,
\* whether or not an import pattern matches that line too.
C20_CommentAndBlankLinesYieldNothing ==
    im_pc = "done" =>
        \A i \in 1..Len(im_imports) :
            LET n == im_imports[i].line_number
            IN  /\ n \in 1..Len(im_content)
                /\ Strip(im_content[n]) # ""
                /\ ~IsCommentLine(im_language, Strip(im_content[n]))
                /\ im_imports[i].import_statement = Strip(im_content[n])

\* A content with a line that a comment pattern and an import pattern both
\* match, a blank line and an import line: only the last one gave a fact.
C20_Witness ==
    /\ im_pc = "done"
    /\ Len(im_content) = 3
    /\ Len(im_imports) = 1
    /\ im_imports[1].line_number = 3
    /\ Strip(im_content[2]) = ""
    /\ IsCommentLine(im_language, Strip(im_content[1]))
    /\ ImportMatch(im_language, Strip(im_content[1])) # <<>>

\* C28: for a registered language extract_imports does not raise, and every
\* fact it returns has an import kind and a module name.
C28_EveryFactHasKindAndModule ==
    (im_pc = "done" /\ im_language \in KnownLanguages) =>
        /\ ~im_raised
        /\ \A i \in 1..Len(im_imports) :
              /\ im_imports[i].import_type # NoKey
              /\ im_imports[i].module_name # NoKey

(***************************************************************************)
(* Claims about JSONLToSQLiteConverter (checked under SpecMat)             *)
(***************************************************************************)

\* run() has come to its end at least once.
PassDone == mz_pc = "idle" /\ mz_pass >= 1

\* The lines of a file that are JSON objects with every key their handler reads.
WellFormedLines(kind) ==
    {i \in 1..Len(mz_files[kind]) :
        /\ mz_files[kind][i].form = "json"
        /\ mz_files[kind][i].lacks \cap (ParentKeys(kind) \cup RowKeys(kind)) = {}}

HasPRRow(repo_full_name, pr_number) ==
    \E r \in 1..Len(db.repositories), p \in 1..Len(db.pull_requests) :
        /\ db.repositories[r].full_name = repo_full_name
        /\ db.pull_requests[p].repo_id = r
        /\ db.pull_requests[p].pr_number = pr_number

HasCommitRow(repo_full_name, commit_hash) ==
    \E r \in 1..Len(db.repositories), c \in 1..Len(db.commits) :
        /\ db.repositories[r].full_name = repo_full_name
        /\ db.commits[c].repo_id = r
        /\ db.commits[c].commit_hash = commit_hash

\* C13: however often the files are ingested (mz_pass), and also when a file
\* holds a line twice, no two repositories rows have the same full name, no two
\* pull_requests rows the same (repository, PR number), no two commits rows the
\* same (repository, commit hash); and once a run is over there is such a row
\* for every well-formed PR-data line, and for every well-formed commits line
\* whose pull request is in the database.
C13_OneRowPerNaturalKey ==
    /\ \A i, j \in 1..Len(db.repositories) :
          db.repositories[i].full_name = db.repositories[j].full_name => i = j
    /\ \A i, j \in 1..Len(db.pull_requests) :
          (/\ db.pull_requests[i].repo_id = db.pull_requests[j].repo_id
           /\ db.pull_requests[i].pr_number = db.pull_requests[j].pr_number) => i = j
    /\ \A i, j \in 1..Len(db.commits) :
          (/\ db.commits[i].repo_id = db.commits[j].repo_id
           /\ db.commits[i].commit_hash = db.commits[j].commit_hash) => i = j
    /\ PassDone =>
          /\ \A i \in WellFormedLines("pr_data") :
                HasPRRow(mz_files["pr_data"][i].rec.repo_full_name,
                         mz_files["pr_data"][i].rec.pr_number)
          /\ \A i \in WellFormedLines("commits") :
                LET rec == mz_files["commits"][i].rec
                IN  HasPRRow(rec.repo_full_name, rec.pr_number)
                        => HasCommitRow(rec.repo_full_name, rec.commit_hash)

\* The files were ingested twice, the PR data holding a line twice and the
\* commits file a commit hash twice, and the rows are there.
C13_Witness ==
    /\ mz_pc = "idle"
    /\ mz_pass = 2
    /\ \E i, j \in WellFormedLines("pr_data") :
          i < j /\ mz_files["pr_data"][i] = mz_files["pr_data"][j]
    /\ \E i, j \in WellFormedLines("commits") :
          /\ i < j
          /\ mz_files["commits"][i].rec.commit_hash = mz_files["commits"][j].rec.commit_hash
    /\ Len(db.repositories) = 1
    /\ Len(db.pull_requests) = 2
    /\ Len(db.commits) = 1

\* The tables whose rows are looked up by a natural key before they are made.
DimensionTables == {"repositories", "pull_requests", "commits"}

\* C29: no step of the converter changes or removes a row of repositories,
\* pull_requests or commits that exists, whatever the record it ingests says:
\* rows are only added; so the commits row of a commit keeps the pull request
\* it was inserted with.
C29_DimensionRowsNeverChange ==
    [][\A table \in DimensionTables :
          /\ Len(db'[table]) >= Len(db[table])
          /\ \A id \in 1..Len(db[table]) : db'[table][id] = db[table][id]]_vars

\* The files of d/w were ingested, its PR data holding the line of a pull
\* request again with other attributes and the commits file listing c5 under
\* #1 and then under #2: the pull_requests row has the attributes of the
\* first line and the one commits row of c5 is attached to #1.
C29_Witness ==
    /\ PassDone
    /\ \E i \in WellFormedLines("pr_data") :
          /\ mz_files["pr_data"][i].rec.n = 1
          /\ \E p \in 1..Len(db.pull_requests) :
                /\ db.pull_requests[p].pr_number = mz_files["pr_data"][i].rec.pr_number
                /\ db.pull_requests[p].attrs = 0
    /\ \E i \in WellFormedLines("commits") :
          /\ mz_files["commits"][i].rec.commit_hash = "c5"
          /\ mz_files["commits"][i].rec.pr_number = 2
    /\ Len(db.pull_requests) = 2
    /\ Len(db.commits) = 1
    /\ db.commits[1].commit_hash = "c5"
    /\ db.pull_requests[db.commits[1].pr_id].pr_number = 1

\* The tables whose rows hang on a file_changes row.
FactTables == {"function_changes", "class_changes", "diff_hunks", "file_imports"}

\* The id is that of a row of the table.
RowExists(table, id) == id \in 1..Len(db[table])

\* C30: in every state of the database every pull_requests row and every
\* commits row references a repositories row that exists, every commits row
\* and every review_comments row a pull_requests row that exists, every
\* file_changes row a commits row that exists, and every function, class,
\* hunk and import row a file_changes row that exists.
C30_ReferencesResolve ==
    /\ \A i \in 1..Len(db.pull_requests) :
          RowExists("repositories", db.pull_requests[i].repo_id)
    /\ \A i \in 1..Len(db.commits) :
          /\ RowExists("repositories", db.commits[i].repo_id)
          /\ RowExists("pull_requests", db.commits[i].pr_id)
    /\ \A i \in 1..Len(db.file_changes) :
          RowExists("commits", db.file_changes[i].commit_id)
    /\ \A table \in FactTables : \A i \in 1..Len(db[table]) :
          RowExists("file_changes", db[table][i].file_change_id)
    /\ \A i \in 1..Len(db.review_comments) :
          RowExists("pull_requests", db.review_comments[i].pr_id)

\* A pass is over in which lines were dropped for want of a parent (the
\* record of commit c1 was never written), and rows of commits, file changes,
\* facts and review comments are there.
C30_Witness ==
    /\ PassDone
    /\ \E k \in 1..Len(mz_log) : mz_log[k].outcome = "dropped"
    /\ db.commits # <<>>
    /\ db.file_changes # <<>>
    /\ db.review_comments # <<>>
    /\ \E table \in FactTables : db[table] # <<>>

\* The level of the message a handler writes for a line with the outcome: the
\* except branch calls logger.error; the branches that insert, find or drop
\* call no logger (the progress message of every 100th line aside).
MessageOf(outcome) == IF outcome = "error" THEN "error" ELSE "none"

\* C31: for every line the converter dropped because a parent it names is
\* missing, it wrote a warning.
C31_DropEmitsWarning ==
    \A e \in 1..Len(mz_log) :
        mz_log[e].outcome = "dropped" => MessageOf(mz_log[e].outcome) = "warning"

\* C14: no two file_changes rows have the same commit and the same file path.
C14_FileChangeKeyUnique ==
    \A i, j \in 1..Len(db.file_changes) :
        (/\ db.file_changes[i].commit_id = db.file_changes[j].commit_id
         /\ db.file_changes[i].file_path = db.file_changes[j].file_path) => i = j

HasFileChangeRow(repo_full_name, commit_hash, file_path) ==
    \E r \in 1..Len(db.repositories), c \in 1..Len(db.commits),
       f \in 1..Len(db.file_changes) :
        /\ db.repositories[r].full_name = repo_full_name
        /\ db.commits[c].repo_id = r
        /\ db.commits[c].commit_hash = commit_hash
        /\ db.file_changes[f] = FileChangeRow(c, file_path)

\* The row the record of a fact file hangs on is in the database.
ParentInDB(kind, rec) ==
    CASE kind \in {"commits", "review_comments"} -> HasPRRow(rec.repo_full_name, rec.pr_number)
      [] kind = "file_changes" -> HasCommitRow(rec.repo_full_name, rec.commit_hash)
      [] OTHER -> HasFileChangeRow(rec.repo_full_name, rec.commit_hash, rec.file_path)

\* The converter is at a line of a fact file that names a parent which is not
\* in the database.
AtOrphanLine ==
    /\ AtLine(ShardKinds \ {"pr_data"})
    /\ CurrentLine.form = "json"
    /\ CurrentLine.lacks \cap ParentKeys(mz_pc) = {}
    /\ ~ParentInDB(mz_pc, CurrentLine.rec)

LinesOfAllFiles ==
    Len(mz_files["pr_data"]) + Len(mz_files["commits"]) + Len(mz_files["file_changes"])
    + Len(mz_files["function_changes"]) + Len(mz_files["class_changes"])
    + Len(mz_files["diff_hunks"]) + Len(mz_files["imports"])
    + Len(mz_files["review_comments"])

LastOutcome(log) == log[Len(log)].outcome

\* C15: the step on a line whose parent is not in the database changes no
\* table, takes no except branch (the outcome is "dropped", not "error") and
\* leaves the converter at the next line of the same file.
C15_OrphanDroppedQuietly ==
    [][AtOrphanLine =>
          /\ db' = db
          /\ LastOutcome(mz_log') = "dropped"
          /\ mz_pc' = mz_pc
          /\ mz_line' = mz_line + 1]_vars

\* A file-change line was dropped and a later line of the same file, in the
\* same run, gave a row.
C15_Witness ==
    \E i, j \in 1..Len(mz_log) :
        /\ i < j
        /\ mz_log[i].kind = "file_changes" /\ mz_log[i].outcome = "dropped"
        /\ mz_log[j].kind = "file_changes" /\ mz_log[j].outcome = "inserted"
        /\ mz_log[i].pass = mz_log[j].pass
        /\ mz_files["file_changes"][mz_log[i].line_num].lacks = {}

\* The lines the converter cannot make a row of: not JSON, or lacking a key
\* its handler needs.
\* C32: every import line that was read, is well-formed and names a file
\* change that is in the database got its file_imports row, whatever the form
\* of its imported-items value.
C32_ImportLineGivesOneRow ==
    \A e \in 1..Len(mz_log) :
        (/\ mz_log[e].kind = "imports"
         /\ mz_log[e].line_num \in WellFormedLines("imports")
         /\ LET rec == mz_files["imports"][mz_log[e].line_num].rec
            IN  HasFileChangeRow(rec.repo_full_name, rec.commit_hash, rec.file_path))
        => mz_log[e].outcome = "inserted"

\* C35: a step in which the converter skips a line because of an error (the
\* except branch logs the line) leaves every table as it was.
C35_SkippedLineLeavesTablesUnchanged ==
    [][(/\ AtLine(ShardKinds)
        /\ Len(mz_log') = Len(mz_log) + 1
        /\ LastOutcome(mz_log') = "error") => db' = db]_vars

CorruptLines(kind) == (1..Len(mz_files[kind])) \ WellFormedLines(kind)

\* C16: a line that is not JSON or lacks a required key is logged and skipped
\* (every log entry of such a line is an "error"), and it ends neither its file
\* nor the run: once a run is over every line of every file was read in every
\* run so far, and every well-formed PR-data line has its row.
C16_CorruptLineLoggedAndSkipped ==
    /\ \A e \in 1..Len(mz_log) :
          mz_log[e].line_num \in CorruptLines(mz_log[e].kind)
              => mz_log[e].outcome = "error"
    /\ PassDone =>
          /\ Len(mz_log) = mz_pass * LinesOfAllFiles
          /\ \A i \in WellFormedLines("pr_data") :
                HasPRRow(mz_files["pr_data"][i].rec.repo_full_name,
                         mz_files["pr_data"][i].rec.pr_number)

(***************************************************************************)
(* Claims about the order of one run (checked under SpecRun)               *)
(***************************************************************************)

\* The place of x in the sequence s, 0 when s does not hold it.
PlaceIn(s, x) ==
    IF \E i \in 1..Len(s) : s[i] = x
    THEN CHOOSE i \in 1..Len(s) : s[i] = x
    ELSE 0

\* The names of the listing, in the order of the listing.
ListingNames == [i \in 1..Len(Listing) |-> Listing[i].repo_name]

\* The numbers of the merged pull requests of the repository in the order the
\* pages of its listing return them.
RECURSIVE ListedPRs(_, _)
ListedPRs(repo, page) ==
    IF page > MaxPages + 1 THEN <<>>
    ELSE LET data == SelectSeq(MkPage(page, PRShapeOf(repo)), LAMBDA pr : pr.merged)
         IN  [i \in 1..Len(data) |-> data[i].number] \o ListedPRs(repo, page + 1)

\* The listed pull requests of every repository of the listing.
ListedOrder ==
    [repo \in {Listing[i].repo_name : i \in 1..Len(Listing)} |-> ListedPRs(repo, 1)]

ListedOf(repo) == IF repo \in DOMAIN ListedOrder THEN ListedOrder[repo] ELSE <<>>

\* Where the record stands in the order of the run: its repository in the
\* listing, its pull request in the listing of the repository, its commit in
\* the commit listing of the pull request.
OrderKey(rec) ==
    <<PlaceIn(ListingNames, rec.repo_full_name),
      PlaceIn(ListedOf(rec.repo_full_name), rec.pr_number),
      PlaceIn(CommitsOf(rec.repo_full_name, rec.pr_number), rec.commit_hash)>>

KeyBefore(a, b) ==
    \/ a[1] < b[1]
    \/ a[1] = b[1] /\ a[2] < b[2]
    \/ a[1] = b[1] /\ a[2] = b[2] /\ a[3] < b[3]

\* The lines follow the order of the run: a later line is never of an
\* earlier repository, pull request or commit than a line before it.
InRunOrder(lines) ==
    \A i \in 1..Len(lines) : \A j \in i..Len(lines) :
        ~KeyBefore(OrderKey(lines[j]), OrderKey(lines[i]))

\* The lines from the given place on.
LinesFrom(lines, first) == SubSeq(lines, first, Len(lines))

ReturnsWithoutCommits ==
    /\ cl_pc = "next_pr"
    /\ cl.pr_idx <= Len(cl.prs)
    /\ cl'.pr_idx = cl.pr_idx + 1

\* C26: when the commit listing of a pull request is empty or absent,
\* process_pr_data returns False and has written no line to any shard, and
\* the count of processed pull requests of the repository, which decides
\* whether the repository is completed, stays as it was; process_pr_data
\* never returns True for a pull request without commits.
C26_NoCommitsNoRecordNotCounted ==
    /\ [](\A ret \in hist.returns : ret.n_commits = 0 => ~ret.ok)
    /\ [][ReturnsWithoutCommits =>
             /\ shards' = shards
             /\ cl'.repo_pr_count = cl.repo_pr_count
             /\ stats'.total_prs_processed = stats.total_prs_processed
             /\ \E ret \in hist'.returns :
                    /\ ret.repo = CurrentRepo
                    /\ ret.pr_number = cl.prs[cl.pr_idx].number
                    /\ ~ret.ok
                    /\ ret.n_commits = 0]_vars

\* Both cases have happened in one run: the commit listing of #2 of a/x came
\* back absent and that of #2 of b/y is empty; nothing was written for a/x,
\* which is not counted.
C26_Witness ==
    /\ \E ret \in hist.returns : ret.repo = "a/x" /\ ret.pr_number = 2 /\ ret.n_commits = 0
    /\ \E ret \in hist.returns : ret.repo = "b/y" /\ ret.pr_number = 2 /\ ret.n_commits = 0
    /\ \A kind \in ShardKinds \ {"pr_data"} :
           \A i \in 1..Len(shards[kind]) : shards[kind][i].repo_full_name # "a/x"
    /\ "a/x" \notin hist.counted

\* The patch of the file of the commit.
PatchOf(sha, path) ==
    LET files == FilesOf(sha)
    IN  IF \E i \in 1..Len(files) : files[i].filename = path
        THEN files[CHOOSE i \in 1..Len(files) : files[i].filename = path].patch
        ELSE <<>>

\* The loop over the files of a commit stands at a file.
FileReached == cl_pc = "file" /\ pp.fi <= Len(pp.files)

\* The file-change record of the file the loop stands at.
FileChangeRecord ==
    Rec(pp.repo, pp.pr_number, pp.commits[pp.ci], pp.files[pp.fi].filename,
        get_language_from_file(pp.files[pp.fi].filename), 0)

\* save_to_jsonl is called with a file-change record.
FileChangeSaved ==
    /\ cl_pc = "writing"
    /\ pp.wq # <<>>
    /\ Head(pp.wq).op = "write"
    /\ Head(pp.wq).kind = "file_changes"

HasLineIn(kind, repo) ==
    \E i \in 1..Len(shards[kind]) : shards[kind][i].repo_full_name = repo

\* C2 (as claimed): a repository this process has counted as successfully
\* completed has at least one commit record in the commits shard.
C2_CountedOnlyWithCommitRecord ==
    \A repo \in hist.counted : HasLineIn("commits", repo)

\* C2 (amended): a repository this process has counted as successfully
\* completed is in the processed set, and process_pr_data returned True for
\* one of its pull requests, whose commit listing was not empty; whether the
\* detail of any listed commit was fetched does not matter.
C2_CountedOnlyAfterPRReturnedTrue ==
    \A repo \in hist.counted :
        /\ repo \in cl.processed_repos_set
        /\ cl.successfully_processed_repos >= Cardinality(hist.counted)
        /\ \E ret \in hist.returns : ret.repo = repo /\ ret.ok /\ ret.n_commits >= 1

\* A repository is counted although no commit record of it was ever written:
\* every commit detail of its pull request came back absent.
C2_Witness ==
    \E repo \in hist.counted :
        /\ ~HasLineIn("commits", repo)
        /\ hist.write_errors = 0
        /\ stats.repos_successfully_processed >= 1

\* Whether a shard holds a line of the pull request.
HasLineOfPR(repo, number) ==
    \E kind \in ShardKinds : \E i \in 1..Len(shards[kind]) :
        /\ shards[kind][i].repo_full_name = repo
        /\ shards[kind][i].pr_number = number

\* C33: at the end of the first run, which started on empty shards, the
\* repositories the run counted as successfully completed are the ones
\* get_processed_repos_set finds in the shards, and no pull request for which
\* process_pr_data returned False has a line in a shard.
C33_CountedEqualsReconstructed ==
    (cl_pc = "end" /\ run = 1) =>
        /\ hist.counted = get_processed_repos_set(shards)
        /\ \A ret \in hist.returns : ~ret.ok => ~HasLineOfPR(ret.repo, ret.pr_number)

\* The shard of the kind holds a line that agrees with the record on the keys.
HasLineWith(kind, rec, keys) ==
    \E j \in 1..Len(shards[kind]) : \A key \in keys : shards[kind][j][key] = rec[key]

\* C34: in every state of the shard files, after any interruptions, every
\* function, class, hunk and import line has a file-change line of the same
\* repository, commit and path, every file-change line a commit line of the
\* same repository and commit, and every commit line and review-comment line
\* a PR-data line of the same repository and pull request.
C34_EveryRecordHasItsParent ==
    /\ \A kind \in {"function_changes", "class_changes", "diff_hunks", "imports"} :
          \A i \in 1..Len(shards[kind]) :
              HasLineWith("file_changes", shards[kind][i],
                          {"repo_full_name", "commit_hash", "file_path"})
    /\ \A i \in 1..Len(shards["file_changes"]) :
          HasLineWith("commits", shards["file_changes"][i], {"repo_full_name", "commit_hash"})
    /\ \A kind \in {"commits", "review_comments"} :
          \A i \in 1..Len(shards[kind]) :
              HasLineWith("pr_data", shards[kind][i], {"repo_full_name", "pr_number"})

C39_AttemptedIsSumOfOutcomes ==
    cl_pc = "end" =>
        stats.total_repos_attempted =
            stats.repos_successfully_processed + stats.repos_skipped_no_prs
                + stats.repos_skipped_too_many_prs + stats.repos_failed

\* C3 (as claimed): when the process was killed inside process_pr_data for a
\* pull request of repository R and crawl_language has started again and
\* rebuilt the processed set, R is not in that set, so that R and the
\* pull request are fetched again.
C3_InflightRepoNotCompleted ==
    (cl_pc = "resumed" /\ hist.inflight # <<>>)
        => hist.inflight[1].repo \notin cl.processed_repos_set

\* C4 (as claimed): when crawl_language has rebuilt the processed set, it is
\* exactly the set of repositories that have a line in a shard file of any of
\* the eight kinds.
C4_ReconstructedSetIsAllShardRepos ==
    cl_pc = "resumed" => cl.processed_repos_set = ReposIn(shards, ShardKinds)

\* C11: a repository that get_pull_requests skipped by one of its two count
\* heuristics, in this run or in an earlier one, is not in the processed set,
\* has no line in a shard file of any kind, and did not move the success
\* count, which stays the size of the processed set.
C11_SkippedLeavesNoTrace ==
    /\ cl.successfully_processed_repos = Cardinality(cl.processed_repos_set)
    /\ \A repo \in hist.skipped :
          /\ repo \notin cl.processed_repos_set
          /\ repo \notin ReposIn(shards, ShardKinds)
          /\ repo \notin hist.counted

\* A second run has rebuilt a processed set that is not empty, and the
\* repository the first run skipped for its pull-request count is not in it.
C11_Witness ==
    /\ run = 2
    /\ cl_pc = "resumed"
    /\ hist.skipped # {}
    /\ cl.processed_repos_set # {}
    /\ hist.skipped \cap cl.processed_repos_set = {}

\* Where crawl_language stands while a repository is being attempted.
AttemptingRepo == cl_pc \in {"get_prs", "next_pr", "writing", "commit", "file", "file_tail"}

C12_NoWorkPastTarget ==
    /\ cl_pc = "load_batch" =>
          /\ cl.successfully_processed_repos < TargetRepos
          /\ cl.current_start_index > 0 => Len(cl.repos_batch) = BatchSize
    /\ AttemptingRepo => cl.successfully_processed_repos < TargetRepos

CountAtResumption == Cardinality(cl.processed_repos_set \ hist.counted)

\* C40: throughout crawl_language the success count is the size of the
\* processed set; a repository is attempted, and a remote call is made for it,
\* only while the count is below the target; and the count is never above the
\* larger of the target and the count rebuilt at resumption.
C40_CountSetAndTarget ==
    /\ cl.successfully_processed_repos = Cardinality(cl.processed_repos_set)
    /\ (AttemptingRepo \/ pr_pc # "idle") =>
          cl.successfully_processed_repos < TargetRepos
    /\ cl.successfully_processed_repos <= Max(TargetRepos, CountAtResumption)

\* A restarted run found one repository in the shards, completed another one,
\* reached the target with that and ended with a repository of the batch
\* left unattempted.
C40_Witness ==
    /\ run > 1
    /\ cl_pc = "end"
    /\ CountAtResumption >= 1
    /\ hist.counted # {}
    /\ cl.successfully_processed_repos = TargetRepos
    /\ cl.repo_idx <= Len(cl.repos_batch)

(***************************************************************************)
(* Claims about make_request (checked under SpecReq)                       *)
(***************************************************************************)

IsGet(e) == e.ev = "get"
IsQuotaSleep(e) == e.ev = "sleep" /\ e.why = "quota"
IsBackoffSleep(e) == e.ev = "sleep" /\ e.why = "backoff"
IsTransientGet(e) == e.ev = "get" /\ e.why = "" /\ e.n \in TransientStatuses
Returned == rq_pc \in {"done", "idle"} /\ rq_trace # <<>>
GetsOf(t) == SelectSeq(t, IsGet)
BackoffsOf(t) == SelectSeq(t, IsBackoffSleep)
QuotaSleepAt == {i \in 1..Len(rq_trace) : IsQuotaSleep(rq_trace[i])}
GetsAfter(i) == {j \in (i + 1)..Len(rq_trace) : IsGet(rq_trace[j])}

IsTransportFailure(e) == e.ev = "get" /\ e.why = "exc"

\* The backoff sleeps of a call whose attempts all return a transient server
\* error, as C6 establishes them: one after each of the attempts.
TransientSchedule == [k \in 1..DefaultMaxRetries |-> BackoffSeconds(k - 1)]

\* C25: a call whose attempts all fail at transport level makes as many
\* attempts as a call whose attempts all return a transient server error, and
\* has slept the same sequence of backoffs when absent is returned.
C25_TransportFailureSameSchedule ==
    (/\ Returned
     /\ \A i \in 1..Len(rq_trace) : IsGet(rq_trace[i]) => IsTransportFailure(rq_trace[i]))
    => /\ rq_result = "absent"
       /\ Len(GetsOf(rq_trace)) = DefaultMaxRetries
       /\ [k \in 1..Len(BackoffsOf(rq_trace)) |-> BackoffsOf(rq_trace)[k].n]
             = TransientSchedule

\* What the code does on that path: the same number of attempts, and a
\* backoff after every attempt but the last.
C25_TransportFailureSleepsBetweenAttempts ==
    (/\ Returned
     /\ \A i \in 1..Len(rq_trace) : IsGet(rq_trace[i]) => IsTransportFailure(rq_trace[i]))
    => /\ rq_result = "absent"
       /\ Len(GetsOf(rq_trace)) = DefaultMaxRetries
       /\ [k \in 1..Len(BackoffsOf(rq_trace)) |-> BackoffsOf(rq_trace)[k].n]
             = SubSeq(TransientSchedule, 1, DefaultMaxRetries - 1)

\* C5 (as claimed): within one call there is at most one quota sleep, and at
\* most one attempt follows it, so the attempts of a call never exceed the cap
\* of the first frame plus the single quota retry.
C5_SingleQuotaRetry ==
    /\ Cardinality(QuotaSleepAt) <= 1
    /\ \A i \in QuotaSleepAt : Cardinality(GetsAfter(i)) <= 1
    /\ Len(GetsOf(rq_trace)) <= DefaultMaxRetries + QuotaRetryMaxRetries

\* C6: a call all of whose attempts answer 502/503/504 makes at most
\* max_retries (3) attempts, sleeps 2^k seconds right after the k-th (0-based)
\* of them, and returns absent after the third.
C6_TransientBackoffBounded ==
    (\A i \in 1..Len(rq_trace) : IsGet(rq_trace[i]) => IsTransientGet(rq_trace[i]))
    => /\ Len(GetsOf(rq_trace)) <= DefaultMaxRetries
       /\ Len(BackoffsOf(rq_trace)) = Len(GetsOf(rq_trace))
       /\ \A k \in 1..Len(BackoffsOf(rq_trace)) : BackoffsOf(rq_trace)[k].n = 2 ^ (k - 1)
       /\ \A i \in 1..Len(rq_trace) :
             IsGet(rq_trace[i]) => i < Len(rq_trace) /\ IsBackoffSleep(rq_trace[i + 1])
       /\ Returned => rq_result = "absent" /\ Len(GetsOf(rq_trace)) = DefaultMaxRetries
       /\ rq_pc = "loop" => Len(GetsOf(rq_trace)) < DefaultMaxRetries

C6_Witness ==
    /\ rq_pc = "done"
    /\ rq_result = "absent"
    /\ Len(GetsOf(rq_trace)) = DefaultMaxRetries
    /\ \A i \in 1..Len(rq_trace) : IsGet(rq_trace[i]) => IsTransientGet(rq_trace[i])
    /\ [k \in 1..Len(BackoffsOf(rq_trace)) |-> BackoffsOf(rq_trace)[k].n] = <<1, 2, 4>>

\* C7 (as claimed): the quota sleep after a 403 lasts reset - now when the reset
\* time lies in the future, and the fixed minimum only when it has passed.
C7_SleepUntilReset ==
    \A i \in QuotaSleepAt :
        rq_trace[i].n = IF rq_trace[i - 1].d > 0 THEN rq_trace[i - 1].d ELSE QuotaMinimumWait

\* C8: a 404 response ends the call at once with absent: it is the last entry
\* of the call's history, so no attempt and no sleep follows it.
C8_NotFoundReturnsAtOnce ==
    \A i \in 1..Len(rq_trace) :
        (IsGet(rq_trace[i]) /\ rq_trace[i].why = "" /\ rq_trace[i].n = 404)
        => /\ i = Len(rq_trace)
           /\ rq_pc \in {"done", "idle"}
           /\ rq_result = "absent"

C8_Witness ==
    /\ rq_pc = "done"
    /\ Len(rq_trace) >= 3
    /\ rq_trace[Len(rq_trace)] = GetEv(404, 0)
    /\ rq_attempt < rq_max_retries - 1

====
